---- MODULE Spec2Model ----
(***************************************************************************)
(* Task-routing and agent-execution runtime of ai-firm:                    *)
(*   TaskQueue / MessageBus      src/src/runtime/queue.py                  *)
(*   Task                        src/src/core/models/task.py               *)
(*   BaseAgent (executor loop)   src/src/agents/base.py                    *)
(*   AgentRuntime (orchestrator) src/src/runtime/loop.py                   *)
(*   AgentState / Project        src/src/core/models/agent.py, project.py  *)
(*                                                                         *)
(* Envelopes (Task objects) are shared by reference in the program: the    *)
(* same object sits in several mailboxes after a broadcast.  The model     *)
(* keeps every Task in one table, `tasks`, indexed by its id, and the      *)
(* mailboxes hold ids; a heap entry (PrioritizedTask) holds its own copy   *)
(* of priority and created_at, taken when it was pushed.                   *)
(*                                                                         *)
(* Specifications:                                                         *)
(*   SpecQueue    one TaskQueue driven through its public methods          *)
(*   SpecBus      a MessageBus with register_agent and send                *)
(*   Spec         the executors' run loops over the bus, after start()     *)
(*   SpecControl  the executors with the command channel                   *)
(*   SpecSignoff  the sign-off methods of AgentState and Project           *)
(*   SpecConverge the convergence checker, records signed and revoked      *)
(*   SpecDeliver  a run in which every executor signs off                  *)
(*   SpecActivity the activity log of the bus and get_recent_activity      *)
(*   SpecCommand  commands sent to one role or to all, and their handling  *)
(*   SpecClarify  the clarification handler, the human and stop()          *)
(*   SpecRuntime  the five duties gathered by start(), together            *)
(*   SpecShared   the executors with Tasks broadcast to every mailbox      *)
(*   SpecBacklog  one TaskQueue with several Tasks deferred to its backlog *)
(*   SpecLock     the methods of one TaskQueue called concurrently         *)
(*   SpecOutcome  the executors with results that sign off or revoke       *)
(*   SpecSnapshot the duties with a storage whose save_project may raise   *)
(* FairSpec, FairControl, FairDeliver and FairRuntime add the scheduling   *)
(* of the event loop.                                                      *)
(***************************************************************************)
EXTENDS Integers, Sequences, FiniteSets

VARIABLES
    tasks,          \* Seq of Task records; a Task's id is its index
    clock,          \* datetime.utcnow() at the latest Task construction
    inbox,          \* TaskQueue._inbox  : role -> heap array of PrioritizedTask
    outbox,         \* TaskQueue._outbox : role -> set of Task ids (dict keys)
    wip,            \* TaskQueue._wip    : role -> Task id or NoTask
    backlog,        \* TaskQueue._backlog: role -> Seq of Task ids
    lock,           \* TaskQueue._lock of the mailbox of QRole: the caller that
                    \*   holds it, or NoCaller
    inside,         \* caller -> the method of that mailbox the caller has
                    \*   called and not left: [name, task, holds], holds once
                    \*   it is inside the `async with self._lock` block
    queues,         \* MessageBus._queues: the registered roles
    activity_log,   \* MessageBus._activity_log: Seq of Task ids
    pc,             \* BaseAgent.run: where each executor's coroutine stands
    got,            \* BaseAgent.run's local `task` while it is live: the Task
                    \*   get_next returned and _process_task_wrapper works on
    status,         \* AgentState.status
    current_task_id, \* AgentState.current_task_id of the record each executor
                    \*   holds: a Task id or NoTask
    result,         \* _process_task_wrapper's local `result`, per executor: the
                    \*   sign-off field of the TaskResult process_task returned
                    \*   last ("raised" when it raised instead)
    served,         \* history: (priority, created_at) of the Tasks popped from
                    \*   the inbox since the latest push into it
    op,             \* history: the latest call made from outside the
                    \*   executors' loops or poll of the convergence checker,
                    \*   [name, role, task]
    paused,         \* BaseAgent._paused, per role
    shutdown_requested, \* BaseAgent._shutdown_requested, per role
    rt_shutdown,    \* AgentRuntime._shutdown_requested
    command_queue,  \* AgentRuntime._command_queue: Seq of SystemCommand
                    \*   records [command, target_agent]
    state,          \* BaseAgent.state: the AgentState each executor holds,
                    \*   [signed_off, signoff_blockers]
    project_agents, \* Project.agents: the AgentState the project holds per role
    project_state,  \* Project.state
    current_milestone, \* Project.current_milestone is set
    pc_conv,        \* _run_convergence_checker: where the coroutine stands
    pending_clarification, \* Project.pending_clarification: the sender of
                    \*   the pending question Task, or NoRole
    pc_clar,        \* _run_clarification_handler: where the coroutine stands
    in_flight,      \* invocations of on_clarification_needed not yet resolved
    asked,          \* the handler's local task: the role whose question is put to the human
    before_request, \* history: Project.state when request_clarification
                    \*   was last called
    guidance,       \* AgentMemory: human guidance injected, per role (count)
    pc_mon,         \* _run_status_monitor: where the coroutine stands
    recent          \* the latest call of get_recent_activity: its limit and
                    \*   the list it returned

lockvars == <<lock, inside>>
qvars   == <<inbox, outbox, wip, backlog, lockvars>>
busvars == <<queues, activity_log>>
agvars  == <<pc, status, current_task_id, result>>
ctlvars == <<paused, shutdown_requested, rt_shutdown, command_queue>>
signvars == <<state, project_agents, project_state, current_milestone, pc_conv>>
clarvars == <<pending_clarification, pc_clar, in_flight, asked, before_request>>
dutyvars == <<clarvars, guidance, pc_mon, recent>>
rtvars  == <<ctlvars, signvars, dutyvars>>
vars    == <<tasks, clock, inbox, outbox, wip, backlog, lock, inside, queues,
             activity_log,
             pc, got, status, current_task_id, result, served, op, paused,
             shutdown_requested,
             rt_shutdown, command_queue, state, project_agents, project_state,
             current_milestone, pc_conv, pending_clarification, pc_clar,
             in_flight, asked, before_request, guidance, pc_mon, recent>>

----------------------------------------------------------------------------
(* Bounds of the model *)

\* Tasks constructed in a behaviour of SpecQueue
MaxQTasks == 3

\* Tasks constructed in a behaviour of Spec
MaxTasks == 3

\* Tasks sent in a behaviour of SpecBus
MaxBusTasks == 2

\* Tasks a caller of requeue_with_delay leaves in the backlog at a time
MaxBacklog == 1

\* Tasks a caller of requeue_with_delay leaves in the backlog at a time, in
\* SpecBacklog
MaxDeferred == 2

\* Tasks constructed in a behaviour of SpecLock
MaxLockTasks == 2

\* Tasks constructed in a behaviour of SpecControl
MaxControlTasks == 2

\* Commands waiting in the command queue at a time
MaxCommands == 1

\* An AgentState holds at most this many signoff_blockers
MaxBlockers == 2

\* Human guidance injected into an agent's memory, at most
MaxGuidance == 1

\* The largest limit get_recent_activity is called with
MaxLimit == 3

\* Commands waiting in the command queue at a time in SpecCommand
MaxQueued == 2

\* Tasks constructed in a behaviour of SpecCommand
MaxCommandTasks == 1

\* Tasks constructed in a behaviour of SpecRuntime
MaxRuntimeTasks == 1

\* Tasks constructed in a behaviour of SpecShared
MaxSharedTasks == 2

\* Tasks constructed in a behaviour of SpecSnapshot
MaxSnapshotTasks == 2

\* Tasks constructed in a behaviour of SpecOutcome
MaxOutcomeTasks == 3

\* Tasks constructed in a behaviour of SpecClarify
MaxClarifyTasks == 2

\* Tasks constructed in a behaviour of SpecConverge
MaxConvergeTasks == 1

\* Tasks constructed in a behaviour of SpecDeliver: one for each executor
MaxDeliverTasks == 4

----------------------------------------------------------------------------
(* Program constants *)

\* Priority (IntEnum): lower number = higher priority
CRITICAL == 0
HIGH     == 1
MEDIUM   == 2
LOW      == 3
Priority == {CRITICAL, HIGH, MEDIUM, LOW}

\* The priorities the repository constructs Tasks with: HIGH, the default
\* MEDIUM, and LOW (tests, and the downgrade after a failure).  Nothing
\* constructs a CRITICAL Task.
UsedPriority == {HIGH, MEDIUM, LOW}

\* Optional[Task] / Optional[TaskId] None; Task ids start at 1
NoTask == 0

\* AgentRole
Roles == {"pm", "architect", "developer", "tester"}

\* None, where a role is expected
NoRole == ""

----------------------------------------------------------------------------
(* Task *)

\* Task(...): the dataclass fields the runtime reads or writes
Task(sender, recipient, task_type, priority, created_at, parent, rr) ==
    [sender            |-> sender,
     recipient         |-> recipient,
     task_type         |-> task_type,
     priority          |-> priority,
     created_at        |-> created_at,
     parent_task_id    |-> parent,
     requires_response |-> rr,
     status            |-> "pending"]

\* create_response that answers to the parent's recipient
CreateResponseToRecipient(pid, parent, sender, at) ==
    Task(sender, parent.recipient, "response", parent.priority, at, pid, TRUE)

\* Task.create_response(sender, ...) on Task pid (record parent), at time at:
\* requires_response keeps its default, True
CreateResponse(pid, parent, sender, at) ==
    Task(sender, parent.sender, "response", parent.priority, at, pid, TRUE)

\* field(default_factory=datetime.utcnow): the clock read at construction never
\* runs backwards, and two constructions may read the same value
Stamps == IF tasks = <<>> THEN {clock + 1} ELSE {clock, clock + 1}

\* The id the next constructed Task gets (uuid4: fresh)
NewId == Len(tasks) + 1

----------------------------------------------------------------------------
(* PrioritizedTask and heapq *)

\* PrioritizedTask.from_task
FromTask(id, t) ==
    [priority |-> t.priority, timestamp |-> t.created_at, task |-> id]

\* PLess with the priority left out of the comparison
PLessByTime(a, b) == a.timestamp < b.timestamp

\* dataclass(order=True) with task: field(compare=False):
\* (priority, timestamp) compared as a tuple
PLess(a, b) ==
    \/ a.priority < b.priority
    \/ a.priority = b.priority /\ a.timestamp < b.timestamp

\* heapq._siftdown(heap, startpos, pos), positions 0-based as in heapq
RECURSIVE SiftDown(_, _, _, _)
SiftDown(heap, startpos, pos, newitem) ==
    IF pos > startpos
    THEN LET parentpos == (pos - 1) \div 2
             parent    == heap[parentpos + 1]
         IN  IF PLess(newitem, parent)
             THEN SiftDown([heap EXCEPT ![pos + 1] = parent],
                           startpos, parentpos, newitem)
             ELSE [heap EXCEPT ![pos + 1] = newitem]
    ELSE [heap EXCEPT ![pos + 1] = newitem]

\* heapq._siftup(heap, pos): bubble the smaller child up to a leaf, then
\* sift newitem down from there
RECURSIVE SiftUp(_, _, _, _)
SiftUp(heap, startpos, pos, newitem) ==
    LET endpos   == Len(heap)
        childpos == 2 * pos + 1
        rightpos == childpos + 1
    IN  IF childpos < endpos
        THEN LET c == IF rightpos < endpos
                         /\ ~PLess(heap[childpos + 1], heap[rightpos + 1])
                      THEN rightpos ELSE childpos
             IN  SiftUp([heap EXCEPT ![pos + 1] = heap[c + 1]],
                        startpos, c, newitem)
        ELSE SiftDown([heap EXCEPT ![pos + 1] = newitem], startpos, pos, newitem)

\* heapq.heappush(heap, item)
HeapPush(heap, item) ==
    LET h == Append(heap, item)
    IN  SiftDown(h, 0, Len(h) - 1, item)

\* heapq.heappop(heap): the item returned (heap is not empty)
HeapPopItem(heap) == heap[1]

\* heapq.heappop(heap): the heap left behind
HeapPopRest(heap) ==
    LET lastelt == heap[Len(heap)]
        rest    == SubSeq(heap, 1, Len(heap) - 1)
    IN  IF rest # <<>>
        THEN SiftUp([rest EXCEPT ![1] = lastelt], 0, 0, lastelt)
        ELSE rest

----------------------------------------------------------------------------
(* TaskQueue *)

\* _is_blocked that holds back every Task but an awaited response while the
\* mailbox awaits a response
IsBlockedAwaiting(t, ob) ==
    IF t.parent_task_id # NoTask /\ t.parent_task_id \in ob
    THEN [blocked |-> FALSE, outbox |-> ob \ {t.parent_task_id}]
    ELSE [blocked |-> ob # {}, outbox |-> ob]

\* _is_blocked that leaves the outbox alone
IsBlockedKeeping(t, ob) == [blocked |-> FALSE, outbox |-> ob]

\* TaskQueue._is_blocked(task): never blocks; clears the outbox entry of the
\* Task this one responds to.  Returns the verdict and the outbox left.
IsBlocked(t, ob) ==
    IF t.parent_task_id # NoTask /\ t.parent_task_id \in ob
    THEN [blocked |-> FALSE, outbox |-> ob \ {t.parent_task_id}]
    ELSE [blocked |-> FALSE, outbox |-> ob]

\* ScanBacklog that also forgets the awaited responses
ScanBacklogClearing(bl, ob, unblocked, still_blocked) ==
    [unblocked |-> <<>>, still_blocked |-> bl, outbox |-> {}]

\* get_next, lines 69-77: split the backlog into unblocked and still_blocked,
\* _is_blocked acting on the outbox as it goes
RECURSIVE ScanBacklog(_, _, _, _)
ScanBacklog(bl, ob, unblocked, still_blocked) ==
    IF bl = <<>>
    THEN [unblocked |-> unblocked, still_blocked |-> still_blocked, outbox |-> ob]
    ELSE LET b == IsBlocked(tasks[Head(bl)], ob)
         IN  IF b.blocked
             THEN ScanBacklog(Tail(bl), b.outbox, unblocked,
                              Append(still_blocked, Head(bl)))
             ELSE ScanBacklog(Tail(bl), b.outbox, Append(unblocked, Head(bl)),
                              still_blocked)

\* The key of unblocked.sort: (t.priority, t.created_at), read from the Task
SortKeyLess(i, j) ==
    \/ tasks[i].priority < tasks[j].priority
    \/ tasks[i].priority = tasks[j].priority
       /\ tasks[i].created_at < tasks[j].created_at

\* unblocked.sort(key=...)[0]: list.sort is stable, so the first of the
\* elements with the least key
SortedFirst(s) ==
    LET k == CHOOSE i \in 1..Len(s) :
                 /\ \A j \in 1..Len(s) : ~SortKeyLess(s[j], s[i])
                 /\ \A j \in 1..(i - 1) : SortKeyLess(s[i], s[j])
    IN  s[k]

\* TaskQueue.get_next as a function of the mailbox: the Task returned (or
\* NoTask), the mailbox left, and whether the Task came from the inbox
RECURSIVE GetNextResult(_, _, _)
GetNextResult(ib, bl, ob) ==
    IF ib # <<>>
    THEN LET prioritized == HeapPopItem(ib)
             b           == IsBlocked(tasks[prioritized.task], ob)
         IN  IF b.blocked
             THEN GetNextResult(HeapPopRest(ib),
                                Append(bl, prioritized.task), b.outbox)
             ELSE [task |-> prioritized.task, inbox |-> HeapPopRest(ib),
                   backlog |-> bl, outbox |-> b.outbox, popped |-> TRUE]
    ELSE LET sc == ScanBacklog(bl, ob, <<>>, <<>>)
         IN  [task    |-> IF sc.unblocked # <<>>
                          THEN SortedFirst(sc.unblocked) ELSE NoTask,
              inbox   |-> ib,
              backlog |-> sc.still_blocked,
              outbox  |-> sc.outbox,
              popped  |-> FALSE]

\* TaskQueue.enqueue / TaskQueue.requeue: the inbox after the push
Pushed(ib, id, t) == HeapPush(ib, FromTask(id, t))

\* mark_sent that records whatever it is given
MarkSentAlways(ob, id, t) == ob \cup {id}

\* TaskQueue.mark_sent: the outbox after the call
MarkSentOutbox(ob, id, t) ==
    IF t.requires_response THEN ob \cup {id} ELSE ob

----------------------------------------------------------------------------
(* SpecQueue: one TaskQueue, driven as the unit tests drive it *)

\* TaskQueue(AgentRole.PM)
QRole == "pm"

Op(name, r, id) == [name |-> name, role |-> r, task |-> id]

\* The ids a mailbox holds, in inbox or backlog
InInbox(r)   == {inbox[r][i].task : i \in 1..Len(inbox[r])}
InBacklog(r) == {backlog[r][i] : i \in 1..Len(backlog[r])}

\* The callers of the methods of one mailbox: the router (MessageBus.send,
\* which enqueues) and the executor that owns the mailbox
Callers == {"router", "owner"}

\* asyncio.Lock() not held
NoCaller == ""

\* A caller inside no method of the mailbox
NoCall == [name |-> "", task |-> NoTask, holds |-> FALSE]

\* AgentState(role=role): the sign-off fields of a new record
NewAgentState == [signed_off |-> FALSE, signoff_blockers |-> <<>>]

\* BaseAgent.__init__ (control flags, state), AgentRuntime.__init__ (control,
\* command queue) and the defaults of Project.  Until start() the record an
\* executor holds is the one the project holds (base.py, lines 58-59).
InitRuntime ==
    /\ paused = [r \in Roles |-> FALSE]
    /\ shutdown_requested = [r \in Roles |-> FALSE]
    /\ rt_shutdown = FALSE
    /\ command_queue = <<>>
    /\ state = [r \in Roles |-> NewAgentState]
    /\ project_agents = [r \in Roles |-> NewAgentState]
    /\ project_state = "created"
    /\ current_milestone = FALSE
    /\ pc_conv = "new"
    /\ pending_clarification = NoRole
    /\ pc_clar = "new"
    /\ in_flight = 0
    /\ asked = NoRole
    /\ before_request = "created"
    /\ guidance = [r \in Roles |-> 0]
    /\ pc_mon = "new"
    /\ recent = [limit |-> 0, tasks |-> <<>>]

\* TaskQueue.__init__ for every role; no Task constructed yet
InitQueues ==
    /\ InitRuntime
    /\ tasks = <<>>
    /\ clock = 0
    /\ inbox   = [r \in Roles |-> <<>>]
    /\ outbox  = [r \in Roles |-> {}]
    /\ wip     = [r \in Roles |-> NoTask]
    /\ backlog = [r \in Roles |-> <<>>]
    /\ lock    = NoCaller
    /\ inside  = [c \in Callers |-> NoCall]
    /\ got     = [r \in Roles |-> NoTask]
    /\ served  = [r \in Roles |-> <<>>]
    /\ pc      = [r \in Roles |-> "new"]
    /\ status  = [r \in Roles |-> "idle"]
    /\ current_task_id = [r \in Roles |-> NoTask]
    /\ result  = [r \in Roles |-> "none"]
    /\ activity_log = <<>>
    /\ op = Op("init", "", NoTask)

InitQueue ==
    /\ InitQueues
    /\ queues = {}

\* Another role's Task addressed to this mailbox, e.g. Task(priority=LOW):
\* a request, or the response to a Task this role still awaits
QCreate(p, parent) ==
    /\ Len(tasks) < MaxQTasks
    /\ \E at \in Stamps :
        /\ tasks' = Append(tasks, Task("human", QRole,
                                       IF parent = NoTask THEN "request" ELSE "response",
                                       p, at, parent, TRUE))
        /\ clock' = at
    /\ op' = Op("call", QRole, NoTask)
    /\ UNCHANGED <<qvars, busvars, agvars, got, served, rtvars>>

\* A Task of this role's own, constructed and handed to mark_sent as
\* _handle_task_result does: await queue.mark_sent(task)
QMarkSent(rr) ==
    /\ Len(tasks) < MaxQTasks
    /\ tasks' = Append(tasks, Task(QRole, "human", "request", MEDIUM, clock, NoTask, rr))
    /\ outbox' = [outbox EXCEPT ![QRole] = MarkSentOutbox(@, NewId, tasks'[NewId])]
    /\ op' = Op("call", QRole, NoTask)
    /\ UNCHANGED <<clock, inbox, wip, backlog, busvars, agvars, got, served, rtvars,
                   lockvars>>

\* The Tasks addressed to the mailbox that it does not hold
Loose == {id \in 1..Len(tasks) : tasks[id].recipient = QRole}
             \ (InInbox(QRole) \cup InBacklog(QRole))

\* await queue.enqueue(task), or await queue.requeue(task) of a Task returned
\* earlier: the two methods have the same body
QEnqueue(id) ==
    /\ inbox' = [inbox EXCEPT ![QRole] = Pushed(@, id, tasks[id])]
    /\ served' = [served EXCEPT ![QRole] = <<>>]
    /\ op' = Op("call", QRole, NoTask)
    /\ UNCHANGED <<tasks, clock, outbox, wip, backlog, busvars, agvars, got, rtvars,
                   lockvars>>

\* await queue.requeue_with_delay(task), with at most n Tasks left in the
\* backlog at a time
QRequeueWithDelayIn(n, id) ==
    /\ Len(backlog[QRole]) < n
    /\ backlog' = [backlog EXCEPT ![QRole] = Append(@, id)]
    /\ op' = Op("call", QRole, NoTask)
    /\ UNCHANGED <<tasks, clock, inbox, outbox, wip, busvars, agvars, got, served, rtvars,
                   lockvars>>

\* await queue.requeue_with_delay(task)
QRequeueWithDelay(id) == QRequeueWithDelayIn(MaxBacklog, id)

\* await queue.get_next()
QGetNext ==
    LET g == GetNextResult(inbox[QRole], backlog[QRole], outbox[QRole])
    IN  /\ inbox'   = [inbox   EXCEPT ![QRole] = g.inbox]
        /\ backlog' = [backlog EXCEPT ![QRole] = g.backlog]
        /\ outbox'  = [outbox  EXCEPT ![QRole] = g.outbox]
        /\ served'  = [served  EXCEPT ![QRole] =
                          IF g.popped
                          THEN Append(@, <<tasks[g.task].priority,
                                           tasks[g.task].created_at>>)
                          ELSE <<>>]
        /\ op' = Op("get_next", QRole, g.task)
        /\ UNCHANGED <<tasks, clock, wip, busvars, agvars, got, rtvars,
                       lockvars>>

\* await queue.clear()
QClear ==
    /\ inbox'   = [inbox   EXCEPT ![QRole] = <<>>]
    /\ outbox'  = [outbox  EXCEPT ![QRole] = {}]
    /\ wip'     = [wip     EXCEPT ![QRole] = NoTask]
    /\ backlog' = [backlog EXCEPT ![QRole] = <<>>]
    /\ served'  = [served  EXCEPT ![QRole] = <<>>]
    /\ op' = Op("call", QRole, NoTask)
    /\ UNCHANGED <<tasks, clock, busvars, agvars, got, rtvars, lockvars>>

NextQueue ==
    \/ \E p \in UsedPriority, parent \in {NoTask} \cup outbox[QRole] : QCreate(p, parent)
    \/ \E rr \in BOOLEAN : QMarkSent(rr)
    \/ \E id \in Loose : QEnqueue(id)
    \/ \E id \in Loose : QRequeueWithDelay(id)
    \/ QGetNext
    \/ QClear

SpecQueue == InitQueue /\ [][NextQueue]_vars

\* SpecBacklog: one TaskQueue whose owner defers Tasks, several at a time,
\* and takes them back with get_next; nothing calls clear
NextBacklog ==
    \/ \E p \in UsedPriority : QCreate(p, NoTask)
    \/ \E id \in Loose : QEnqueue(id)
    \/ \E id \in Loose : QRequeueWithDelayIn(MaxDeferred, id)
    \/ QGetNext

SpecBacklog == InitQueue /\ [][NextBacklog]_vars

----------------------------------------------------------------------------
(* TaskQueue: the lock *)

\* acquire never waits
LockFreeAlways(l) == TRUE

\* asyncio.Lock.acquire returns without waiting when the lock is not held
LockFree(l) == l = NoCaller

\* The methods of TaskQueue that change the mailbox, each of them
\* `async with self._lock:` around its body; the router calls enqueue, the
\* owner the others
Methods(c) ==
    IF c = "router"
    THEN {"enqueue"}
    ELSE {"get_next", "mark_sent", "set_wip", "requeue", "requeue_with_delay",
          "clear"}

\* The Tasks addressed to the mailbox that it does not hold and that no
\* caller is about to put into it
Free == Loose \ {inside[c].task : c \in Callers}

\* The Tasks a caller passes to the method name
Arguments(name) ==
    CASE name \in {"enqueue", "requeue"} -> Free
      [] name = "requeue_with_delay" ->
             IF Len(backlog[QRole]) < MaxBacklog THEN Free ELSE {}
      [] name = "mark_sent" -> {id \in 1..Len(tasks) : tasks[id].sender = QRole}
      [] name = "set_wip" -> Free \cup {NoTask}
      [] OTHER -> {NoTask}

\* A Task of this role's own, constructed as create_task constructs it
QCreateOwn(rr) ==
    /\ Len(tasks) < MaxQTasks
    /\ tasks' = Append(tasks, Task(QRole, "human", "request", MEDIUM, clock, NoTask, rr))
    /\ op' = Op("call", QRole, NoTask)
    /\ UNCHANGED <<clock, qvars, busvars, agvars, got, served, rtvars>>

\* The caller c calls the method name with the Task id: it reaches the
\* `async with self._lock` of the method
LockCall(c, name, id) ==
    /\ inside[c] = NoCall
    /\ inside' = [inside EXCEPT ![c] = [name |-> name, task |-> id, holds |-> FALSE]]
    /\ UNCHANGED <<tasks, clock, inbox, outbox, wip, backlog, lock, busvars,
                   agvars, got, served, op, rtvars>>

\* asyncio.Lock.__aenter__: the caller c gets the lock once it is free
LockAcquire(c) ==
    /\ inside[c] # NoCall
    /\ ~inside[c].holds
    /\ LockFree(lock)
    /\ lock' = c
    /\ inside' = [inside EXCEPT ![c].holds = TRUE]
    /\ UNCHANGED <<tasks, clock, inbox, outbox, wip, backlog, busvars, agvars,
                   got, served, op, rtvars>>

\* The body of the method the caller c is inside (no body awaits), and
\* asyncio.Lock.__aexit__, which releases the lock
LockLeave(c) ==
    /\ inside[c].holds
    /\ LET name == inside[c].name
           id   == inside[c].task
           g    == GetNextResult(inbox[QRole], backlog[QRole], outbox[QRole])
       IN  /\ inbox' = [inbox EXCEPT ![QRole] =
                  CASE name \in {"enqueue", "requeue"} -> Pushed(@, id, tasks[id])
                    [] name = "get_next" -> g.inbox
                    [] name = "clear" -> <<>>
                    [] OTHER -> @]
           /\ backlog' = [backlog EXCEPT ![QRole] =
                  CASE name = "requeue_with_delay" -> Append(@, id)
                    [] name = "get_next" -> g.backlog
                    [] name = "clear" -> <<>>
                    [] OTHER -> @]
           /\ outbox' = [outbox EXCEPT ![QRole] =
                  CASE name = "mark_sent" -> MarkSentOutbox(@, id, tasks[id])
                    [] name = "get_next" -> g.outbox
                    [] name = "clear" -> {}
                    [] OTHER -> @]
           /\ wip' = [wip EXCEPT ![QRole] =
                  CASE name = "set_wip" -> id
                    [] name = "clear" -> NoTask
                    [] OTHER -> @]
           /\ served' = [served EXCEPT ![QRole] =
                  CASE name \in {"enqueue", "requeue", "clear"} -> <<>>
                    [] name = "get_next" ->
                           IF g.popped
                           THEN Append(@, <<tasks[g.task].priority,
                                            tasks[g.task].created_at>>)
                           ELSE <<>>
                    [] OTHER -> @]
           /\ op' = Op(name, QRole, IF name = "get_next" THEN g.task ELSE id)
    /\ lock' = NoCaller
    /\ inside' = [inside EXCEPT ![c] = NoCall]
    /\ UNCHANGED <<tasks, clock, busvars, agvars, got, rtvars>>

\* SpecLock: one TaskQueue with the router and its owner calling its methods
\* at the same time
NextLock ==
    \/ Len(tasks) < MaxLockTasks /\ QCreate(MEDIUM, NoTask)
    \/ Len(tasks) < MaxLockTasks /\ QCreateOwn(TRUE)
    \/ \E c \in Callers : \E name \in Methods(c) : \E id \in Arguments(name) :
           LockCall(c, name, id)
    \/ \E c \in Callers : LockAcquire(c)
    \/ \E c \in Callers : LockLeave(c)

SpecLock == InitQueue /\ [][NextLock]_vars

----------------------------------------------------------------------------
(* MessageBus *)

\* The recipients a Task is given: a role, "broadcast", "human", or a
\* string that names no role ("nobody" stands for all of them; the default
\* recipient "" is one)
Recipients == Roles \cup {"broadcast", "human", "nobody"}

\* The senders a Task is given: a role, or "human"
Senders == Roles \cup {"human"}

\* The ids a heap array holds
Held(ib) == {ib[i].task : i \in 1..Len(ib)}

\* SendInboxes that also delivers a directly addressed Task to its sender
SendInboxesEcho(ib, qs, id, t) ==
    [r \in Roles |->
        IF r \in qs /\ (r = t.recipient \/ r = t.sender)
        THEN Pushed(ib[r], id, t) ELSE ib[r]]

\* SendInboxes whose broadcast does not leave the sender out
SendInboxesToAll(ib, qs, id, t) ==
    [r \in Roles |->
        IF r \in qs /\ (r = t.recipient \/ t.recipient = "broadcast")
        THEN Pushed(ib[r], id, t) ELSE ib[r]]

\* SendInboxes that hands a Task it cannot route to the first role
SendInboxesDefault(ib, qs, id, t) ==
    [r \in Roles |->
        IF \/ r \in qs /\ (r = t.recipient
                           \/ (t.recipient = "broadcast" /\ r # t.sender))
           \/ r = "pm" /\ t.recipient \notin qs \cup {"broadcast", "human"}
        THEN Pushed(ib[r], id, t) ELSE ib[r]]

\* SendInboxes that treats "human" as one more broadcast
SendInboxesHuman(ib, qs, id, t) ==
    [r \in Roles |->
        IF r \in qs /\ (r = t.recipient
                        \/ (t.recipient \in {"broadcast", "human"} /\ r # t.sender))
        THEN Pushed(ib[r], id, t) ELSE ib[r]]

\* MessageBus.send, lines 175-195: the inboxes after routing Task id (record
\* t) with the roles qs registered.  AgentRole is a str enum, so a role and
\* its name compare and hash alike, and AgentRole(recipient) raises
\* ValueError exactly for a string that names no role.
SendInboxes(ib, qs, id, t) ==
    IF t.recipient = "broadcast"
    THEN [r \in Roles |->
             IF r \in qs /\ r # t.sender THEN Pushed(ib[r], id, t) ELSE ib[r]]
    ELSE IF t.recipient = "human"
    THEN ib
    ELSE IF t.recipient \in Roles
    THEN IF t.recipient \in qs
         THEN [ib EXCEPT ![t.recipient] = Pushed(@, id, t)]
         ELSE ib
    ELSE ib

----------------------------------------------------------------------------
(* SpecBus: a MessageBus with its registered queues, as in TestMessageBus *)

\* MessageBus() and one TaskQueue(role) per role, none registered
InitBus ==
    /\ InitQueues
    /\ queues = {}

\* bus.register_agent(role, queue): once per role, before routing begins
BRegister(r) ==
    /\ r \notin queues
    /\ activity_log = <<>>
    /\ queues' = queues \cup {r}
    /\ op' = Op("register_agent", r, NoTask)
    /\ UNCHANGED <<tasks, clock, qvars, activity_log, agvars, got, served, rtvars>>

\* task = Task(sender=..., recipient=...); await bus.send(task)
BSend(sender, recipient) ==
    /\ Len(tasks) < MaxBusTasks
    /\ \E at \in Stamps :
        LET t == Task(sender, recipient, "request", MEDIUM, at, NoTask, TRUE)
        IN  /\ tasks' = Append(tasks, t)
            /\ clock' = at
            /\ activity_log' = Append(activity_log, NewId)
            /\ inbox' = SendInboxes(inbox, queues, NewId, t)
    /\ op' = Op("send", sender, NewId)
    /\ UNCHANGED <<outbox, wip, backlog, queues, agvars, got, served, rtvars,
                   lockvars>>

\* s[start:] of Python for a list s and an index start: a negative index
\* counts from the end, and an index beyond either end is clamped
SliceFrom(s, start) ==
    LET n     == Len(s)
        first == IF start < 0
                 THEN (IF n + start < 0 THEN 0 ELSE n + start)
                 ELSE (IF start > n THEN n ELSE start)
    IN  SubSeq(s, first + 1, n)

\* await bus.get_recent_activity(limit), lines 197-200:
\* self._activity_log[-limit:]
BGetRecentActivity(limit) ==
    /\ recent' = [limit |-> limit, tasks |-> SliceFrom(activity_log, -limit)]
    /\ op' = Op("get_recent_activity", "", NoTask)
    /\ UNCHANGED <<tasks, clock, qvars, busvars, agvars, got, served, ctlvars,
                   signvars, clarvars, guidance, pc_mon>>

NextBus ==
    \/ \E r \in Roles : BRegister(r)
    \/ \E sender \in Senders, recipient \in Recipients : BSend(sender, recipient)

SpecBus == InitBus /\ [][NextBus]_vars

----------------------------------------------------------------------------
(* BaseAgent: the executor loop *)

\* _handle_task_result, lines 135-143, for one Task of the result:
\* await self.message_bus.send(task), then self.queue.mark_sent(task).
\* w is the world so far: tasks, clock, inboxes, activity log, and the outbox
\* of the executor r.  (For an outgoing Task the caller tests
\* requires_response before mark_sent tests it again.)
SendAndMark(w, r, t) ==
    LET id == Len(w.tasks) + 1
    IN  [tasks  |-> Append(w.tasks, t),
         clock  |-> t.created_at,
         inbox  |-> SendInboxes(w.inbox, queues, id, t),
         log    |-> Append(w.log, id),
         outbox |-> MarkSentOutbox(w.outbox, id, t)]

\* The Task with its priority set as the except branch sets it
DowngradedNot(t) == t

\* _process_task_wrapper, line 129: task.priority = Priority.LOW
Downgraded(t) == [t EXCEPT !.priority = LOW]

\* The roles the agent of role r addresses Tasks to with create_task: the PM
\* hands off to the Architect, the Architect to the Developer, the Developer
\* to the Tester and escalates to the Architect, the Tester notifies the PM
\* and the Architect and sends bugs to the Developer.  (No agent addresses a
\* Task to "broadcast"; SpecBus explores it.)
Targets(r) ==
    CASE r = "pm"        -> {"architect"}
      [] r = "architect" -> {"developer"}
      [] r = "developer" -> {"tester", "architect"}
      [] r = "tester"    -> {"pm", "architect", "developer"}

\* An outgoing Task of a result of the agent of role r, awaiting a response
\* or not
Outgoing(r) == [recipient : Targets(r),
                priority  : {MEDIUM},
                rr        : BOOLEAN]

\* AgentState.sign_off, lines 212-216, when it does not raise
SignOff(st) == [st EXCEPT !.signed_off = TRUE]

\* sign_off never refuses
SignOffRaisesNever(st) == FALSE

\* AgentState.sign_off raises ValueError: there are blockers
SignOffRaises(st) == st.signoff_blockers # <<>>

\* revoke_signoff appends the blocker and leaves signed_off as it was
RevokeSignoffKeeping(st, reason) ==
    [st EXCEPT !.signoff_blockers = Append(@, reason)]

\* AgentState.revoke_signoff, lines 218-221
RevokeSignoff(st, reason) ==
    [signed_off |-> FALSE,
     signoff_blockers |-> Append(st.signoff_blockers, reason)]

\* list.remove: the sequence without its first element equal to b
RECURSIVE Remove(_, _)
Remove(s, b) ==
    IF s = <<>> THEN <<>>
    ELSE IF Head(s) = b THEN Tail(s)
    ELSE <<Head(s)>> \o Remove(Tail(s), b)

\* AgentState.clear_blocker, lines 223-226
ClearBlocker(st, b) ==
    [st EXCEPT !.signoff_blockers = Remove(@, b)]

\* The sign-off fields of a TaskResult: neither set, sign_off, revoke_signoff
Signs == {"none", "sign_off", "revoke"}

\* The reason an executor revokes with (tester.py, line 212) and the reason
\* of Project.reject_milestone (project.py, line 182)
Reasons == {"bugs", "rejected"}

\* _handle_task_result, lines 170-175, on the record the executor holds
Signed(st, sign) ==
    CASE sign = "sign_off" -> SignOff(st)
      [] sign = "revoke"   -> RevokeSignoff(st, "bugs")
      [] OTHER             -> st

\* AgentRuntime.__init__: _create_agents has built the four agents, each
\* with its TaskQueue registered on the bus
Init ==
    /\ InitQueues
    /\ queues = Roles

\* The initial Task goes to every agent
InitialTaskBroadcast(at) ==
    Task("human", "broadcast", "request", HIGH, at, NoTask, TRUE)

\* AgentRuntime.start, lines 97-116: the initial Task
InitialTask(at) ==
    Task("human", "pm", "request", HIGH, at, NoTask, TRUE)

\* AgentRuntime.start, lines 87-128: initialize_agents puts a new AgentState
\* per role into project.agents (the executors keep the records they hold);
\* the initial Task goes to the PM; the gather that follows starts the agent
\* loops and the monitors
Start ==
    /\ op.name = "init"
    /\ LET t == InitialTask(clock + 1)
       IN  /\ tasks' = Append(tasks, t)
           /\ clock' = clock + 1
           /\ activity_log' = Append(activity_log, NewId)
           /\ inbox' = SendInboxes(inbox, queues, NewId, t)
    /\ project_agents' = [r \in Roles |-> NewAgentState]
    /\ pc' = [r \in Roles |-> "loop"]
    /\ pc_conv' = "poll"
    /\ pc_clar' = "poll"
    /\ pc_mon' = "poll"
    /\ op' = Op("start", "", NoTask)
    /\ UNCHANGED <<outbox, wip, backlog, queues, got, status, current_task_id,
                   result, served, ctlvars, state, project_state, current_milestone,
                   pending_clarification, in_flight, asked, before_request, guidance,
                   recent, lockvars>>

\* The loop of r ends only once its inbox is drained
ShutdownSeenWhenDrained(r) == shutdown_requested[r] /\ inbox[r] = <<>>

\* BaseAgent.run, line 88: while not self._shutdown_requested
ShutdownSeen(r) == shutdown_requested[r]

\* The loop of r never sleeps on a pause
PauseSeenNever(r) == FALSE

\* BaseAgent.run, line 90: if self._paused
PauseSeen(r) == paused[r]

\* BaseAgent.run, lines 88-108, one iteration.  With shutdown requested the
\* loop ends and the status goes idle; paused, the status goes paused and
\* the executor sleeps; otherwise get_next: with no Task, idle and sleep;
\* with a Task, _process_task_wrapper up to the await of process_task
\* (start_task, mark_in_progress)
RunLoop(r) ==
    /\ pc[r] = "loop"
    /\ IF ShutdownSeen(r)
       THEN /\ status' = [status EXCEPT ![r] = "idle"]
            /\ pc' = [pc EXCEPT ![r] = "done"]
            /\ UNCHANGED <<tasks, inbox, backlog, outbox, got, current_task_id>>
       ELSE IF PauseSeen(r)
       THEN /\ status' = [status EXCEPT ![r] = "paused"]
            /\ UNCHANGED <<tasks, inbox, backlog, outbox, got, pc,
                           current_task_id>>
       ELSE LET g == GetNextResult(inbox[r], backlog[r], outbox[r])
            IN  /\ inbox'   = [inbox   EXCEPT ![r] = g.inbox]
                /\ backlog' = [backlog EXCEPT ![r] = g.backlog]
                /\ outbox'  = [outbox  EXCEPT ![r] = g.outbox]
                /\ IF g.task = NoTask
                   THEN /\ status' = [status EXCEPT ![r] = "idle"]
                        /\ current_task_id' =
                               [current_task_id EXCEPT ![r] = NoTask]
                        /\ UNCHANGED <<tasks, pc, got>>
                   ELSE /\ status' = [status EXCEPT ![r] = "working"]
                        /\ current_task_id' =
                               [current_task_id EXCEPT ![r] = g.task]
                        /\ tasks' = [tasks EXCEPT ![g.task].status = "in_progress"]
                        /\ got' = [got EXCEPT ![r] = g.task]
                        /\ pc' = [pc EXCEPT ![r] = "working"]
    /\ UNCHANGED <<clock, wip, busvars, result, served, op, rtvars, lockvars>>

\* _handle_task_result, lines 135-143, for a result of the executor r on
\* the Task it works on: the response, if any, then the outgoing Tasks outs.
\* Each Task of the result is constructed at a later clock reading than the
\* one before (equal readings are explored in SpecQueue).
Routed(r, respond, outs) ==
    LET at1 == IF respond THEN clock + 1 ELSE clock
        at2 == IF outs # <<>> THEN at1 + 1 ELSE at1
        w0  == [tasks |-> tasks, clock |-> clock, inbox |-> inbox,
                log |-> activity_log, outbox |-> outbox[r]]
        w1  == IF respond
               THEN SendAndMark(w0, r, CreateResponse(got[r], tasks[got[r]], r, at1))
               ELSE w0
    IN  IF outs # <<>>
        THEN SendAndMark(w1, r,
                 Task(r, outs[1].recipient, "request", outs[1].priority,
                      at2, NoTask, outs[1].rr))
        ELSE w1

\* With the Tasks of a result, at most n Tasks have been constructed
FitsIn(n, respond, outs) ==
    Len(tasks) + (IF respond THEN 1 ELSE 0) + Len(outs) <= n

\* The Tasks of a result fit the bound on constructed Tasks of Spec
Fits(respond, outs) == FitsIn(MaxTasks, respond, outs)

\* The status the except branch leaves
FailedStatusWaiting == "waiting"

\* _process_task_wrapper, line 127: update_status(AgentStatus.IDLE)
FailedStatus == "idle"

\* _process_task_wrapper, lines 117-123: process_task returned a result with
\* a response (or none), the outgoing Tasks outs, the sign-off fields sign
\* and needs_clarification (with a question) clar; _handle_task_result
\* routes the Tasks, registers the clarification request with the project
\* (lines 163-168; Project.request_clarification, lines 185-188) and applies
\* the sign-off to the record the executor holds, then mark_completed and
\* complete_task
ProcessResult(r, respond, outs, sign, clar) ==
    /\ pc[r] = "working"
    /\ sign = "sign_off" => ~SignOffRaises(state[r])
    /\ sign = "revoke" => Len(state[r].signoff_blockers) < MaxBlockers
    /\ LET w == Routed(r, respond, outs)
       IN  /\ tasks' = [w.tasks EXCEPT ![got[r]].status = "completed"]
           /\ clock' = w.clock
           /\ inbox' = w.inbox
           /\ activity_log' = w.log
           /\ outbox' = [outbox EXCEPT ![r] = w.outbox]
    /\ state' = [state EXCEPT ![r] = Signed(@, sign)]
    /\ pc' = [pc EXCEPT ![r] = "loop"]
    /\ got' = [got EXCEPT ![r] = NoTask]
    /\ current_task_id' = [current_task_id EXCEPT ![r] = NoTask]
    /\ result' = [result EXCEPT ![r] = sign]
    /\ IF clar
       THEN /\ pending_clarification' = r
            /\ project_state' = "awaiting_input"
            /\ before_request' = project_state
       ELSE UNCHANGED <<pending_clarification, project_state, before_request>>
    /\ UNCHANGED <<wip, backlog, queues, status, served, op, ctlvars,
                   project_agents, current_milestone, pc_conv, pc_clar,
                   in_flight, asked, guidance, pc_mon, recent, lockvars>>

\* A result that asks the human nothing
ProcessOk(r, respond, outs, sign) ==
    ProcessResult(r, respond, outs, sign, FALSE)

\* _process_task_wrapper, lines 125-130, the except branch: process_task
\* raised (no response, no outgoing Task), or _handle_task_result raised after
\* it had routed the Tasks of the result (sign_off with blockers, line 172,
\* which leaves the record as it was).  The executor goes idle, downgrades
\* the Task and requeues it.  sign is the sign-off field of the result, or
\* "raised" when process_task returned none.
ExceptBranch(r, respond, outs, sign) ==
    /\ pc[r] = "working"
    /\ LET w  == Routed(r, respond, outs)
           id == got[r]
           t  == Downgraded(w.tasks[id])
       IN  /\ tasks' = [w.tasks EXCEPT ![id] = t]
           /\ clock' = w.clock
           /\ inbox' = [w.inbox EXCEPT ![r] = Pushed(@, id, t)]
           /\ activity_log' = w.log
           /\ outbox' = [outbox EXCEPT ![r] = w.outbox]
    /\ status' = [status EXCEPT ![r] = FailedStatus]
    /\ pc' = [pc EXCEPT ![r] = "loop"]
    /\ got' = [got EXCEPT ![r] = NoTask]
    /\ result' = [result EXCEPT ![r] = sign]
    /\ UNCHANGED <<wip, backlog, queues, current_task_id, served, op, rtvars,
                   lockvars>>

\* process_task raised, or _handle_task_result raised after routing the
\* Tasks of a result that neither signs off nor revokes
ProcessFail(r, respond, outs) ==
    ExceptBranch(r, respond, outs,
                 IF ~respond /\ outs = <<>> THEN "raised" ELSE "none")

\* process_task returned a result with sign_off=True to an executor whose
\* record holds blockers: _handle_task_result routes the Tasks of the result
\* (lines 135-143), then self.state.sign_off() raises ValueError (line 172)
SignOffRefused(r, respond, outs) ==
    /\ SignOffRaises(state[r])
    /\ ExceptBranch(r, respond, outs, "sign_off")

\* The results of process_task: a response or none, at most one outgoing Task
Results(r) ==
    [respond : BOOLEAN, outs : {<<>>} \cup {<<o>> : o \in Outgoing(r)}]

\* The executors over the bus, with no command and no sign-off
Next ==
    \/ Start
    \/ \E r \in Roles : RunLoop(r)
    \/ \E r \in Roles : \E res \in Results(r) :
           Fits(res.respond, res.outs) /\ ProcessOk(r, res.respond, res.outs, "none")
    \/ \E r \in Roles : \E res \in Results(r) :
           Fits(res.respond, res.outs) /\ ProcessFail(r, res.respond, res.outs)

Spec == Init /\ [][Next]_vars

\* process_task comes back for the executor r: it returns or it raises
Process(r) ==
    \E res \in Results(r) :
        /\ Fits(res.respond, res.outs)
        /\ \/ ProcessOk(r, res.respond, res.outs, "none")
           \/ ProcessFail(r, res.respond, res.outs)

\* The event loop runs every coroutine that is ready: each executor's loop
\* iteration is taken, and every await of process_task comes back (by return
\* or by exception, as it may every time)
FairSpec ==
    /\ Spec
    /\ \A r \in Roles : WF_vars(RunLoop(r)) /\ WF_vars(Process(r))

\* await message_bus.send(task) for a Task addressed to "broadcast", on a
\* started runtime (queue.py, lines 177-181): the one Task object goes into
\* the inbox of every registered role but its sender
SendBroadcast ==
    /\ pc_conv # "new"
    /\ Len(tasks) < MaxSharedTasks
    /\ LET t == Task("human", "broadcast", "notification", HIGH, clock + 1,
                     NoTask, FALSE)
       IN  /\ tasks' = Append(tasks, t)
           /\ clock' = clock + 1
           /\ activity_log' = Append(activity_log, NewId)
           /\ inbox' = SendInboxes(inbox, queues, NewId, t)
    /\ UNCHANGED <<outbox, wip, backlog, queues, agvars, got, served, op, rtvars,
                   lockvars>>

\* The results of process_task that hand work on: no response, at most one
\* outgoing Task, which awaits no response
Handoffs(r) ==
    {res \in Results(r) :
        ~res.respond /\ \A i \in 1..Len(res.outs) : ~res.outs[i].rr}

\* SpecShared: the executors over the bus, with a Task broadcast to them
NextShared ==
    \/ Start
    \/ SendBroadcast
    \/ \E r \in Roles : RunLoop(r)
    \/ \E r \in Roles : \E res \in Handoffs(r) :
           /\ FitsIn(MaxSharedTasks, res.respond, res.outs)
           /\ ProcessOk(r, res.respond, res.outs, "none")
    \/ \E r \in Roles : \E res \in Handoffs(r) :
           /\ FitsIn(MaxSharedTasks, res.respond, res.outs)
           /\ ProcessFail(r, res.respond, res.outs)

SpecShared == Init /\ [][NextShared]_vars

\* SpecOutcome: the executors with results that sign off or revoke, on the
\* initial Task and on Tasks the human sends
NextOutcome ==
    \/ Start
    \/ pc_conv # "new" /\ \E recipient \in Roles : BSend("human", recipient)
    \/ \E r \in Roles : RunLoop(r)
    \/ \E r \in Roles, sign \in Signs : \E res \in Handoffs(r) :
           /\ FitsIn(MaxOutcomeTasks, res.respond, res.outs)
           /\ ProcessOk(r, res.respond, res.outs, sign)
    \/ \E r \in Roles : \E res \in Handoffs(r) :
           /\ FitsIn(MaxOutcomeTasks, res.respond, res.outs)
           /\ SignOffRefused(r, res.respond, res.outs)

SpecOutcome == Init /\ [][NextOutcome]_vars

\* SpecActivity: the bus of a runtime, every agent registered, with sends
\* and reads of the recent activity
NextActivity ==
    \/ \E sender \in Senders, recipient \in Recipients : BSend(sender, recipient)
    \/ \E limit \in 0..MaxLimit : BGetRecentActivity(limit)

SpecActivity == Init /\ [][NextActivity]_vars

----------------------------------------------------------------------------
(* AgentRuntime: the command channel *)

\* The commands the host sends (main.py, lines 109-126: pause, resume,
\* inject, and stop(), which sends shutdown), each with no target_agent
HostCommands == {"pause", "resume", "inject", "shutdown"}

\* SystemCommand(command=c, target_agent=target); NoRole for no target
Command(c, target) == [command |-> c, target_agent |-> target]

\* The inject commands waiting in the command queue
QueuedInjects ==
    Cardinality({i \in DOMAIN command_queue : command_queue[i].command = "inject"})

\* AgentRuntime.send_command, lines 234-236, called by the host while the
\* runtime runs, with at most n commands waiting
SendCommandIn(n, c, target) ==
    /\ pc_conv # "new"
    /\ Len(command_queue) < n
    /\ c = "inject" => \A r \in Roles : guidance[r] + QueuedInjects < MaxGuidance
    /\ command_queue' = Append(command_queue, Command(c, target))
    /\ UNCHANGED <<tasks, clock, qvars, busvars, agvars, got, served, op,
                   paused, shutdown_requested, rt_shutdown, signvars, dutyvars>>

\* send_command of a command with no target_agent
HostCommand(c) == SendCommandIn(MaxCommands, c, NoRole)

\* BaseAgent.pause, lines 306-309, for every agent
PauseAllOnce == [r \in Roles |-> IF r = "pm" THEN "paused" ELSE status[r]]

\* BaseAgent.pause, lines 306-309, for every agent: the status it leaves
PauseAll == [r \in Roles |-> "paused"]

\* The command queue hands out the newest command
NextCommandNewest(q) == q[Len(q)]

\* asyncio.Queue.get: the oldest command
NextCommand(q) == Head(q)

\* _handle_command, lines 154-172: the agents pause, resume and inject are
\* applied to (`if cmd.target_agent: ... else: for agent in ...`)
Addressed(cmd) ==
    IF cmd.target_agent # NoRole THEN {cmd.target_agent} ELSE Roles

\* _run_command_processor, lines 139-149, one iteration that gets a command,
\* and _handle_command, lines 151-181.  shutdown looks at no target_agent
\* (lines 174-177); status and any other command change nothing.
HandleCommand ==
    /\ pc_conv # "new"
    /\ ~rt_shutdown
    /\ command_queue # <<>>
    /\ command_queue' = Tail(command_queue)
    /\ LET cmd == NextCommand(command_queue)
           c   == cmd.command
           to  == Addressed(cmd)
       IN  /\ paused' = CASE c = "pause"  -> [r \in Roles |-> (r \in to) \/ paused[r]]
                          [] c = "resume" -> [r \in Roles |-> (r \notin to) /\ paused[r]]
                          [] OTHER        -> paused
           /\ status' = IF c = "pause"
                        THEN [r \in Roles |-> IF r \in to THEN PauseAll[r]
                                                          ELSE status[r]]
                        ELSE status
           /\ guidance' = IF c = "inject"
                          THEN [r \in Roles |-> IF r \in to THEN guidance[r] + 1
                                                            ELSE guidance[r]]
                          ELSE guidance
           /\ shutdown_requested' = IF c = "shutdown"
                                    THEN [r \in Roles |-> TRUE]
                                    ELSE shutdown_requested
           /\ rt_shutdown' = (c = "shutdown")
    /\ UNCHANGED <<tasks, clock, qvars, busvars, pc, got, current_task_id,
                   result, served, op, signvars,
                   clarvars, pc_mon, recent>>

\* The executors over the bus and the command channel, with no sign-off
NextControl ==
    \/ Start
    \/ \E r \in Roles : RunLoop(r)
    \/ \E r \in Roles : \E res \in Handoffs(r) :
           /\ FitsIn(MaxControlTasks, res.respond, res.outs)
           /\ ProcessOk(r, res.respond, res.outs, "none")
    \/ \E r \in Roles : \E res \in Handoffs(r) :
           /\ FitsIn(MaxControlTasks, res.respond, res.outs)
           /\ ProcessFail(r, res.respond, res.outs)
    \/ \E c \in HostCommands : HostCommand(c)
    \/ HandleCommand

SpecControl == Init /\ [][NextControl]_vars

\* process_task comes back for the executor r of SpecControl
ProcessControl(r) ==
    \E res \in Handoffs(r) :
        /\ FitsIn(MaxControlTasks, res.respond, res.outs)
        /\ \/ ProcessOk(r, res.respond, res.outs, "none")
           \/ ProcessFail(r, res.respond, res.outs)

\* The event loop runs every coroutine that is ready: the executors' loop
\* iterations, the awaits of process_task, the command processor.  The host
\* sends commands when it likes.
FairControl ==
    /\ SpecControl
    /\ \A r \in Roles : WF_vars(RunLoop(r)) /\ WF_vars(ProcessControl(r))
    /\ WF_vars(HandleCommand)

\* The targets of the commands of SpecCommand: none, or a role (the PM,
\* the executor with work to do)
CommandTargets == {NoRole, "pm"}

\* SpecCommand: the command channel with commands for one role or for all,
\* several of them waiting at a time, over executors that have the initial
\* Task to work on
NextChannel ==
    \/ Start
    \/ \E r \in Roles : RunLoop(r)
    \/ \E r \in Roles : \E res \in Handoffs(r) :
           /\ FitsIn(MaxCommandTasks, res.respond, res.outs)
           /\ ProcessOk(r, res.respond, res.outs, "none")
    \/ \E c \in HostCommands, target \in CommandTargets :
           SendCommandIn(MaxQueued, c, target)
    \/ HandleCommand

SpecCommand == Init /\ [][NextChannel]_vars

----------------------------------------------------------------------------
(* AgentState and Project: sign-off, driven through their methods *)

\* The record of role r in Project.agents becomes st.  Until start() the
\* AgentState an executor holds is that same object (BaseAgent.__init__,
\* lines 57-61); start() calls initialize_agents, which puts new records in
\* Project.agents, and the executors keep the old ones
BothHold(r, st) ==
    /\ project_agents' = [project_agents EXCEPT ![r] = st]
    /\ state' = IF pc_conv = "new" THEN [state EXCEPT ![r] = st] ELSE state

\* What the sign-off methods leave alone
SignoffFrame ==
    UNCHANGED <<tasks, clock, qvars, busvars, agvars, got, served, ctlvars,
                project_state, pc_conv, dutyvars>>

\* agent.sign_off(): refused with ValueError when there are blockers
ASignOff(r) ==
    /\ IF SignOffRaises(project_agents[r])
       THEN /\ UNCHANGED <<project_agents, state>>
            /\ op' = Op("sign_off raised", r, NoTask)
       ELSE /\ BothHold(r, SignOff(project_agents[r]))
            /\ op' = Op("sign_off", r, NoTask)
    /\ UNCHANGED current_milestone
    /\ SignoffFrame

\* agent.revoke_signoff(reason)
ARevokeSignoff(r, reason) ==
    /\ Len(project_agents[r].signoff_blockers) < MaxBlockers
    /\ BothHold(r, RevokeSignoff(project_agents[r], reason))
    /\ op' = Op("revoke_signoff", r, NoTask)
    /\ UNCHANGED current_milestone
    /\ SignoffFrame

\* agent.clear_blocker(blocker)
AClearBlocker(r, b) ==
    /\ BothHold(r, ClearBlocker(project_agents[r], b))
    /\ op' = Op("clear_blocker", r, NoTask)
    /\ UNCHANGED current_milestone
    /\ SignoffFrame

\* _handle_task_result, lines 170-175, for a result of the executor r that
\* signs off (without blockers: the refusal is ASignOff's) or revokes
AHandleResult(r, sign) ==
    /\ sign = "sign_off" => ~SignOffRaises(state[r])
    /\ sign = "revoke" => Len(state[r].signoff_blockers) < MaxBlockers
    /\ BothHold(r, Signed(state[r], sign))
    /\ op' = Op(sign, r, NoTask)
    /\ UNCHANGED current_milestone
    /\ SignoffFrame

\* Project.create_milestone, lines 156-166
ACreateMilestone ==
    /\ ~current_milestone
    /\ current_milestone' = TRUE
    /\ op' = Op("create_milestone", "", NoTask)
    /\ UNCHANGED <<project_agents, state>>
    /\ SignoffFrame

\* The records after every agent's revoke_signoff("Milestone rejected: ...")
Rejected(agents) == [r \in Roles |-> RevokeSignoff(agents[r], "rejected")]

\* Project.reject_milestone, lines 176-183
ARejectMilestone ==
    /\ \A r \in Roles : Len(project_agents[r].signoff_blockers) < MaxBlockers
    /\ IF current_milestone
       THEN /\ project_agents' = Rejected(project_agents)
            /\ state' = Rejected(state)
       ELSE UNCHANGED <<project_agents, state>>
    /\ op' = Op("reject_milestone", "", NoTask)
    /\ UNCHANGED current_milestone
    /\ SignoffFrame

\* The roles whose record SpecSignoff drives method by method; the other
\* records change with reject_milestone, which revokes every role's
Signers == {"pm", "tester"}

NextSignoff ==
    \/ \E r \in Signers : ASignOff(r)
    \/ \E r \in Signers, reason \in Reasons : ARevokeSignoff(r, reason)
    \/ \E r \in Signers, b \in Reasons : AClearBlocker(r, b)
    \/ \E r \in Signers, sign \in Signs \ {"none"} : AHandleResult(r, sign)
    \/ ACreateMilestone
    \/ ARejectMilestone

SpecSignoff == Init /\ [][NextSignoff]_vars

----------------------------------------------------------------------------
(* AgentRuntime: the convergence checker *)

\* Convergence on the first signed record
AnyAgentSignedOff(agents) == \E r \in Roles : agents[r].signed_off

\* Project.all_agents_signed_off, lines 139-141
AllAgentsSignedOff(agents) == \A r \in Roles : agents[r].signed_off

\* A poll that finds a record not signed takes the delivery back
AfterPollClearing(st, converged) ==
    IF converged THEN "delivered" ELSE "created"

\* Project.state after one poll: mark_delivered (lines 150-154) in the
\* branch of line 221, nothing otherwise
AfterPoll(st, converged) ==
    IF converged THEN "delivered" ELSE st

\* What the checker leaves alone
CheckerFrame ==
    UNCHANGED <<tasks, clock, qvars, busvars, agvars, got, served, paused,
                shutdown_requested, rt_shutdown, state, project_agents,
                current_milestone, dutyvars>>

\* One iteration of _run_convergence_checker, lines 220-227, up to its first
\* await: the test of the loop, the poll, mark_delivered
CheckConvergence ==
    /\ pc_conv = "poll"
    /\ IF rt_shutdown
       THEN /\ pc_conv' = "done"
            /\ op' = Op("checker stopped", "", NoTask)
            /\ UNCHANGED project_state
       ELSE /\ project_state' =
                 AfterPoll(project_state, AllAgentsSignedOff(project_agents))
            /\ IF AllAgentsSignedOff(project_agents)
               THEN pc_conv' = "saving" /\ op' = Op("converged", "", NoTask)
               ELSE pc_conv' = "poll" /\ op' = Op("not converged", "", NoTask)
    /\ UNCHANGED command_queue
    /\ CheckerFrame

\* save_project has returned: send_command(shutdown), line 230, then the
\* sleep of line 232.  The put never waits; the bound on waiting commands
\* holds the checker back only while the command processor still takes
\* commands.
ConvergenceSaved ==
    /\ pc_conv = "saving"
    /\ Len(command_queue) < MaxCommands \/ rt_shutdown
    /\ command_queue' = Append(command_queue, Command("shutdown", NoRole))
    /\ pc_conv' = "poll"
    /\ op' = Op("shutdown issued", "", NoTask)
    /\ UNCHANGED project_state
    /\ CheckerFrame

\* The blocker the host gives when it revokes a record of the project
HostReasons == {"bugs"}

\* SpecConverge: the runtime after start() with its convergence checker and
\* command processor; the host signs and revokes the records of the
\* project, the executors apply the sign-offs of their results
NextConverge ==
    \/ Start
    \/ \E r \in Roles : RunLoop(r)
    \/ \E r \in Roles, sign \in {"none", "sign_off"} : \E res \in Handoffs(r) :
          /\ FitsIn(MaxConvergeTasks, res.respond, res.outs)
          /\ ProcessOk(r, res.respond, res.outs, sign)
    \/ \E r \in Roles : \E res \in Handoffs(r) :
          /\ FitsIn(MaxConvergeTasks, res.respond, res.outs)
          /\ ProcessFail(r, res.respond, res.outs)
    \/ HandleCommand
    \/ CheckConvergence
    \/ ConvergenceSaved
    \/ \E r \in Roles : pc_conv # "new" /\ ASignOff(r)
    \/ \E r \in Signers, reason \in HostReasons :
          pc_conv # "new" /\ ARevokeSignoff(r, reason)

SpecConverge == Init /\ [][NextConverge]_vars

\* The host, which holds the Project, sets signed_off on every record of
\* Project.agents, as test_project_signoff does (lines 161-162).  After
\* start() no code of the runtime writes these records.
HostSignOffAll ==
    /\ pc_conv # "new"
    /\ project_agents' =
          [r \in Roles |-> [project_agents[r] EXCEPT !.signed_off = TRUE]]
    /\ op' = Op("signed_off = True", "", NoTask)
    /\ UNCHANGED <<state, current_milestone>>
    /\ SignoffFrame

\* SpecDeliver: a run to delivery.  Every executor gets a Task along the
\* chain of hand-offs and may sign off with its result
NextDeliver ==
    \/ Start
    \/ \E r \in Roles : RunLoop(r)
    \/ \E r \in Roles, sign \in {"none", "sign_off"} : \E res \in Handoffs(r) :
          /\ FitsIn(MaxDeliverTasks, res.respond, res.outs)
          /\ ProcessOk(r, res.respond, res.outs, sign)
    \/ HandleCommand
    \/ CheckConvergence
    \/ ConvergenceSaved
    \/ HostSignOffAll

SpecDeliver == Init /\ [][NextDeliver]_vars

\* process_task of r returns
ProcessDeliver(r) ==
    \E sign \in {"none", "sign_off"} : \E res \in Handoffs(r) :
        /\ FitsIn(MaxDeliverTasks, res.respond, res.outs)
        /\ ProcessOk(r, res.respond, res.outs, sign)

\* The event loop runs every coroutine of the gather of start() that is
\* ready: the executors' loops, the command processor, the convergence
\* checker.  The host does what it likes.
FairDeliver ==
    /\ SpecDeliver
    /\ \A r \in Roles : WF_vars(RunLoop(r)) /\ WF_vars(ProcessDeliver(r))
    /\ WF_vars(HandleCommand)
    /\ WF_vars(CheckConvergence)
    /\ WF_vars(ConvergenceSaved)

----------------------------------------------------------------------------
(* AgentRuntime: the clarification handler, the status monitor, stop() *)

\* response_type=None, line 199 of Project.provide_clarification
NoResponseType == "None"

\* Task.create_response, line 141: response_type.value, an AttributeError
\* when response_type is None
CreateResponseRaises(response_type) == response_type = NoResponseType

\* The handler asks again while an answer is awaited
MayAskAlways(p) == p \in {"poll", "asking"}

\* _run_clarification_handler is one coroutine: it tests for a pending
\* clarification only at the top of its loop
MayAsk(p) == p = "poll"

\* What the orchestrator's polling duties leave alone
DutyFrame ==
    UNCHANGED <<tasks, clock, qvars, busvars, agvars, got, served, op, ctlvars,
                state, project_agents, current_milestone, pc_conv, guidance,
                recent>>

\* _run_clarification_handler, lines 202-208, one iteration up to its first
\* await: the human-answer callback (set, as by main.py) is invoked for the
\* pending clarification, or the iteration sleeps
ClarificationPoll ==
    /\ pc_clar # "new"
    /\ MayAsk(pc_clar)
    /\ IF rt_shutdown
       THEN pc_clar' = "done" /\ UNCHANGED <<in_flight, asked>>
       ELSE IF pending_clarification # NoRole
            THEN pc_clar' = "asking" /\ in_flight' = in_flight + 1
                 /\ asked' = pending_clarification
            ELSE UNCHANGED <<pc_clar, in_flight, asked>>
    /\ UNCHANGED <<pending_clarification, before_request, project_state, pc_mon>>
    /\ DutyFrame

\* The human answers: the callback invoked at line 208 resolves
HumanAnswers ==
    /\ pc_clar = "asking"
    /\ pc_clar' = "answered"
    /\ in_flight' = in_flight - 1
    /\ UNCHANGED asked
    /\ UNCHANGED <<pending_clarification, before_request, project_state, pc_mon>>
    /\ DutyFrame

\* _run_clarification_handler, lines 211-216, with the answer:
\* Project.provide_clarification (lines 190-209) calls create_response with
\* response_type=None, which raises before line 204; the exception ends the
\* handler and leaves the gather of start().  Had it returned, the response
\* would go to the sender of the pending Task.
ClarificationAnswered ==
    /\ pc_clar = "answered"
    /\ IF CreateResponseRaises(NoResponseType)
       THEN /\ pc_clar' = "raised"
            /\ UNCHANGED <<tasks, clock, inbox, activity_log,
                           pending_clarification, project_state>>
       ELSE LET t == Task("human", pending_clarification,
                          "clarification_response", HIGH, clock + 1, NoTask, TRUE)
            IN  /\ tasks' = Append(tasks, t)
                /\ clock' = clock + 1
                /\ activity_log' = Append(activity_log, NewId)
                /\ inbox' = SendInboxes(inbox, queues, NewId, t)
                /\ pending_clarification' = NoRole
                /\ project_state' = IF project_state = "awaiting_input"
                                    THEN "discovery" ELSE project_state
                /\ pc_clar' = "poll"
    /\ UNCHANGED <<outbox, wip, backlog, queues, agvars, got, served, op,
                   ctlvars, state, project_agents, current_milestone, pc_conv,
                   in_flight, asked, before_request, guidance, pc_mon, recent,
                   lockvars>>

\* _run_status_monitor, lines 185-198, one iteration: the test of the loop;
\* the counters it refreshes and the snapshot it saves are not in the model
StatusMonitor ==
    /\ pc_mon = "poll"
    /\ pc_mon' = IF rt_shutdown THEN "done" ELSE "poll"
    /\ UNCHANGED <<clarvars, project_state>>
    /\ DutyFrame

\* AgentRuntime.stop, lines 245-247
Stop == HostCommand("shutdown")

\* SpecClarify: the executors, whose results may ask the human for a
\* clarification, with the clarification handler, the human and stop()
NextClarify ==
    \/ Start
    \/ \E r \in Roles : RunLoop(r)
    \/ \E r \in Roles, clar \in BOOLEAN : \E res \in Handoffs(r) :
           /\ FitsIn(MaxClarifyTasks, res.respond, res.outs)
           /\ ProcessResult(r, res.respond, res.outs, "none", clar)
    \/ ClarificationPoll
    \/ HumanAnswers
    \/ ClarificationAnswered
    \/ Stop
    \/ HandleCommand

SpecClarify == Init /\ [][NextClarify]_vars

\* The commands the host sends in SpecRuntime
RuntimeCommands == {"pause", "resume"}

\* SpecRuntime: the five duties of start() together: the executors, whose
\* results may ask the human for a clarification, the command processor,
\* the status monitor, the clarification handler and the convergence
\* checker; the host pauses, resumes, stops and signs the project's records
NextRuntime ==
    \/ Start
    \/ \E r \in Roles : RunLoop(r)
    \/ \E r \in Roles, clar \in BOOLEAN : \E res \in Handoffs(r) :
           /\ FitsIn(MaxRuntimeTasks, res.respond, res.outs)
           /\ ProcessResult(r, res.respond, res.outs, "none", clar)
    \/ \E c \in RuntimeCommands : HostCommand(c)
    \/ Stop
    \/ HandleCommand
    \/ StatusMonitor
    \/ ClarificationPoll
    \/ HumanAnswers
    \/ ClarificationAnswered
    \/ CheckConvergence
    \/ ConvergenceSaved
    \/ HostSignOffAll

SpecRuntime == Init /\ [][NextRuntime]_vars

\* process_task of r returns
ProcessRuntime(r) ==
    \E clar \in BOOLEAN : \E res \in Handoffs(r) :
        /\ FitsIn(MaxRuntimeTasks, res.respond, res.outs)
        /\ ProcessResult(r, res.respond, res.outs, "none", clar)

\* The event loop runs every coroutine of the gather of start() that is
\* ready.  The host sends commands when it likes, and the human answers a
\* clarification when they like, or never.
FairRuntime ==
    /\ SpecRuntime
    /\ \A r \in Roles : WF_vars(RunLoop(r)) /\ WF_vars(ProcessRuntime(r))
    /\ WF_vars(HandleCommand)
    /\ WF_vars(StatusMonitor)
    /\ WF_vars(ClarificationPoll)
    /\ WF_vars(ClarificationAnswered)
    /\ WF_vars(CheckConvergence)
    /\ WF_vars(ConvergenceSaved)

\* _run_status_monitor, line 192: save_project raises (the database is
\* locked, the disk is full).  The coroutine has no try/except: the
\* exception ends it and leaves the gather of start().
MonitorSaveRaises ==
    /\ pc_mon = "poll"
    /\ ~rt_shutdown
    /\ pc_mon' = "raised"
    /\ UNCHANGED <<clarvars, project_state>>
    /\ DutyFrame

\* _run_convergence_checker, line 227: save_project raises after
\* mark_delivered; the shutdown command of line 230 is not sent
ConvergenceSaveRaises ==
    /\ pc_conv = "saving"
    /\ pc_conv' = "raised"
    /\ op' = Op("save raised", "", NoTask)
    /\ UNCHANGED <<command_queue, project_state>>
    /\ CheckerFrame

\* start(), lines 122-128: the gather has no return_exceptions, the first
\* exception of a duty is raised by start()
StartRaises == "raised" \in {pc_mon, pc_clar, pc_conv}

\* SpecSnapshot: the executors, the command processor, the status monitor
\* and the convergence checker, with a storage whose save_project may raise
NextSnapshot ==
    \/ Start
    \/ \E r \in Roles : RunLoop(r)
    \/ \E r \in Roles : \E res \in Handoffs(r) :
           /\ FitsIn(MaxSnapshotTasks, res.respond, res.outs)
           /\ ProcessOk(r, res.respond, res.outs, "none")
    \/ HandleCommand
    \/ StatusMonitor
    \/ MonitorSaveRaises
    \/ CheckConvergence
    \/ ConvergenceSaved
    \/ ConvergenceSaveRaises
    \/ HostSignOffAll

SpecSnapshot == Init /\ [][NextSnapshot]_vars

----------------------------------------------------------------------------
(* Claims *)

KeyLeq(a, b) == a[1] < b[1] \/ (a[1] = b[1] /\ a[2] <= b[2])

\* C1: get_next calls with no enqueue in between return the Tasks in
\* non-decreasing priority value and, within one priority, in non-decreasing
\* created_at order
C1_PriorityOrder ==
    \A r \in Roles : \A i \in 1..(Len(served[r]) - 1) :
        KeyLeq(served[r][i], served[r][i + 1])

\* Tasks constructed LOW, HIGH, MEDIUM came back HIGH, MEDIUM, LOW
C1_Witness ==
    /\ Len(tasks) = 3
    /\ <<tasks[1].priority, tasks[2].priority, tasks[3].priority>> = <<LOW, HIGH, MEDIUM>>
    /\ Len(served[QRole]) = 3
    /\ <<served[QRole][1][1], served[QRole][2][1], served[QRole][3][1]>>
           = <<HIGH, MEDIUM, LOW>>

\* C2: get_next on a mailbox with empty inbox and empty backlog returns None
\* and leaves inbox, backlog, outbox and wip as they were
C2_EmptyGetNext ==
    [][(/\ op'.name = "get_next"
        /\ inbox[op'.role] = <<>>
        /\ backlog[op'.role] = <<>>)
       => (op'.task = NoTask /\ UNCHANGED qvars)]_vars

\* get_next has returned None to a mailbox that still awaits a response
C2_Witness ==
    /\ op.name = "get_next"
    /\ op.task = NoTask
    /\ inbox[op.role] = <<>> /\ backlog[op.role] = <<>>
    /\ outbox[op.role] # {}

\* The entries of a heap array that hold Task id
Copies(ib, id) == Cardinality({i \in 1..Len(ib) : ib[i].task = id})

\* The Task a step of SpecBus has sent
Sent == tasks'[op'.task]

\* C3: send of a Task whose recipient is a registered role pushes it once
\* into that role's inbox and leaves every other inbox as it was
C3_DirectSend ==
    [][(op'.name = "send" /\ Sent.recipient \in queues)
       => /\ Held(inbox'[Sent.recipient]) = Held(inbox[Sent.recipient]) \cup {op'.task}
          /\ Len(inbox'[Sent.recipient]) = Len(inbox[Sent.recipient]) + 1
          /\ \A r \in Roles \ {Sent.recipient} : inbox'[r] = inbox[r]]_vars

\* A Task sent from one registered role to another sits in the recipient's
\* inbox and not in the sender's
C3_Witness ==
    /\ op.name = "send"
    /\ tasks[op.task].recipient \in queues
    /\ tasks[op.task].sender \in queues \ {tasks[op.task].recipient}
    /\ op.task \in Held(inbox[tasks[op.task].recipient])
    /\ op.task \notin Held(inbox[tasks[op.task].sender])

\* C4: a Task sent to "broadcast" by R is pushed once into the inbox of
\* every registered role other than R, and R's inbox (like every unregistered
\* role's) is left as it was
C4_Broadcast ==
    [][(op'.name = "send" /\ Sent.recipient = "broadcast")
       => \A r \in Roles :
            IF r \in queues /\ r # Sent.sender
            THEN /\ Held(inbox'[r]) = Held(inbox[r]) \cup {op'.task}
                 /\ Copies(inbox'[r], op'.task) = 1
                 /\ Len(inbox'[r]) = Len(inbox[r]) + 1
            ELSE inbox'[r] = inbox[r]]_vars

\* A registered role has broadcast with two other roles registered: they
\* hold the Task, the sender does not
C4_Witness ==
    /\ op.name = "send"
    /\ tasks[op.task].recipient = "broadcast"
    /\ tasks[op.task].sender \in queues
    /\ Cardinality(queues) = 3
    /\ \A r \in queues :
          (op.task \in Held(inbox[r])) <=> (r # tasks[op.task].sender)

\* C5: send of a Task whose recipient names no role, or a role that is not
\* registered, changes no mailbox and appends the Task to the activity log;
\* and such a Task is in no inbox later either
C5_UnknownDropped ==
    /\ [][(op'.name = "send" /\ Sent.recipient \notin queues \cup {"broadcast", "human"})
          => /\ UNCHANGED qvars
             /\ activity_log' = Append(activity_log, op'.task)]_vars
    /\ [](\A id \in 1..Len(tasks) :
             tasks[id].recipient \notin queues \cup {"broadcast", "human"}
             => \A r \in Roles : id \notin Held(inbox[r]))

\* With some role registered, a Task for a role that is not registered and
\* then a Task for "nobody" were sent: both are logged, no inbox holds any
C5_Witness ==
    /\ queues # {}
    /\ Len(tasks) = 2
    /\ tasks[1].recipient \in Roles \ queues
    /\ tasks[2].recipient = "nobody"
    /\ activity_log = <<1, 2>>
    /\ \A r \in Roles : inbox[r] = <<>>

\* C6: send of a Task whose recipient is "human" changes no mailbox and
\* appends the Task to the activity log
C6_HumanNotEnqueued ==
    [][(op'.name = "send" /\ Sent.recipient = "human")
       => /\ UNCHANGED qvars
          /\ activity_log' = Append(activity_log, op'.task)]_vars

\* A registered role has sent a Task to "human" while others are registered:
\* it is the last entry of the log and in no inbox
C6_Witness ==
    /\ op.name = "send"
    /\ tasks[op.task].recipient = "human"
    /\ tasks[op.task].sender \in queues
    /\ Cardinality(queues) >= 2
    /\ activity_log[Len(activity_log)] = op.task
    /\ \A r \in Roles : op.task \notin Held(inbox[r])

\* The roles whose mailbox Task id has reached: it is in the inbox or the
\* backlog, or the executor works on it
Reached(id) ==
    {r \in Roles : id \in Held(inbox[r]) \cup InBacklog(r) \/ got[r] = id}

\* C7: a response has the sender of the Task it answers as recipient and
\* that Task's id as parent_task_id, and no mailbox other than that sender's
\* ever holds it
C7_ResponseToSender ==
    \A id \in 1..Len(tasks) :
        tasks[id].task_type = "response"
        => /\ tasks[id].parent_task_id \in 1..Len(tasks)
           /\ tasks[id].recipient = tasks[tasks[id].parent_task_id].sender
           /\ Reached(id) \subseteq {tasks[tasks[id].parent_task_id].sender}

\* The response of one role to the request of another is in the requester's
\* inbox
C7_Witness ==
    \E id \in 1..Len(tasks) :
        /\ tasks[id].task_type = "response"
        /\ tasks[id].sender # tasks[id].recipient
        /\ tasks[id].recipient \in Roles
        /\ id \in Held(inbox[tasks[id].recipient])

\* The Tasks a step has constructed
Fresh == (Len(tasks) + 1)..Len(tasks')

\* C8: the Tasks an executor sends while handling a result enter its own
\* outbox exactly when they require a response, no other outbox changes, and
\* an outbox only ever holds Tasks of its owner that require a response
C8_OutboxOnSend ==
    /\ [][\A r \in Roles :
            (pc[r] = "working" /\ pc'[r] = "loop")
            => /\ \A id \in Fresh :
                    /\ tasks'[id].sender = r
                    /\ tasks'[id].requires_response <=> id \in outbox'[r]
               /\ outbox'[r] \ outbox[r] \subseteq Fresh
               /\ \A q \in Roles \ {r} : outbox'[q] = outbox[q]]_vars
    /\ [](\A r \in Roles : \A id \in outbox[r] :
             tasks[id].sender = r /\ tasks[id].requires_response)

\* An executor has sent one Task that requires a response, which its outbox
\* holds, and one that does not, which no outbox holds
C8_Witness ==
    \E r \in Roles : \E a, b \in 1..Len(tasks) :
        /\ tasks[a].sender = r /\ tasks[a].requires_response /\ a \in outbox[r]
        /\ tasks[b].sender = r /\ ~tasks[b].requires_response
        /\ \E i \in 1..Len(activity_log) : activity_log[i] = b
        /\ \A q \in Roles : b \notin outbox[q]

\* C9 as claimed: once a response to an awaited Task is in the inbox, the
\* outbox entry of that Task is gone
C9_ClearedOnReceipt ==
    \A r \in Roles : \A id \in Held(inbox[r]) :
        tasks[id].parent_task_id \notin outbox[r]

\* C9, amended: a push into the inbox removes nothing from the outbox; the
\* entry of the awaited Task is removed inside get_next, at the latest by the
\* call that returns the response
C9_ClearedOnDequeue ==
    [][\A r \in Roles :
         /\ Len(inbox'[r]) > Len(inbox[r]) => outbox[r] \subseteq outbox'[r]
         /\ (op'.name = "get_next" /\ op'.role = r /\ op'.task # NoTask)
            => /\ tasks[op'.task].parent_task_id \notin outbox'[r]
               /\ outbox'[r] \subseteq outbox[r]]_vars

\* get_next has returned the response to a Task that was awaited, and the
\* outbox no longer holds that Task
C9_Witness ==
    /\ op.name = "get_next"
    /\ op.task # NoTask
    /\ tasks[op.task].parent_task_id # NoTask
    /\ tasks[tasks[op.task].parent_task_id].sender = op.role
    /\ tasks[op.task].parent_task_id \notin outbox[op.role]

\* C10: when processing a Task fails, that Task is pushed back into the
\* inbox of the same mailbox, once, with priority LOW; it stays on record and
\* enters no other inbox and no backlog
C10_RequeueOnFailure ==
    [][\A r \in Roles :
         (pc[r] = "working" /\ pc'[r] = "loop" /\ tasks'[got[r]].status # "completed")
         => /\ tasks'[got[r]] = [tasks[got[r]] EXCEPT !.priority = LOW]
            /\ Copies(inbox[r], got[r]) = 0
            /\ Copies(inbox'[r], got[r]) = 1
            /\ Len(inbox'[r]) = Len(inbox[r]) + 1 + Cardinality({id \in Fresh : tasks'[id].recipient = r})
            /\ \A i \in 1..Len(inbox'[r]) :
                   inbox'[r][i].task = got[r] => inbox'[r][i].priority = LOW
            /\ \A q \in Roles \ {r} : got[r] \notin Held(inbox'[q])
            /\ \A q \in Roles : got[r] \notin InBacklog(q)']_vars

\* The initial Task, constructed HIGH, is back in the PM's inbox as LOW
\* after a failure, with the executor at the top of its loop
C10_Witness ==
    /\ Len(tasks) >= 1
    /\ tasks[1].priority = LOW
    /\ tasks[1].status = "in_progress"
    /\ pc["pm"] = "loop"
    /\ Copies(inbox["pm"], 1) = 1
    /\ \A r \in Roles \ {"pm"} : 1 \notin Held(inbox[r])

\* C11: under fair scheduling, a Task that is in the inbox of an executor
\* (running and not paused, as every executor of FairSpec is) is eventually
\* the Task that executor hands to process_task
C11_AtLeastOnce ==
    \A r \in Roles : \A id \in 1..MaxTasks :
        (id \in Held(inbox[r])) ~> (got[r] = id)

\* The step is the except branch of the executor r
FailStep(r) ==
    pc[r] = "working" /\ pc'[r] = "loop" /\ tasks'[got[r]].status # "completed"

\* The step is a loop iteration of the executor r that changes its status or
\* its position
LoopStep(r) ==
    /\ pc[r] = "loop"
    /\ command_queue' = command_queue
    /\ pc'[r] # pc[r] \/ status'[r] # status[r]

\* The step handles the command c
Handles(c) ==
    /\ Len(command_queue') < Len(command_queue)
    /\ Head(command_queue).command = c

\* The step takes nothing from the mailbox of r and hands r no Task
Keeps(r) ==
    /\ Held(inbox[r]) \subseteq Held(inbox'[r])
    /\ Len(inbox'[r]) >= Len(inbox[r])
    /\ backlog'[r] = backlog[r]
    /\ outbox[r] \subseteq outbox'[r]
    /\ got'[r] = got[r]

\* C12: the except branch leaves the executor idle, at the top of its loop
\* and with its control flags as they were; and the next iteration of an
\* executor that is neither paused nor shut down, with a Task in its inbox,
\* takes a Task to work on
C12_FailureNotFatal ==
    [][\A r \in Roles :
         /\ FailStep(r)
            => /\ status'[r] = "idle"
               /\ pc'[r] = "loop"
               /\ got[r] \in Held(inbox'[r])
               /\ UNCHANGED <<paused, shutdown_requested, rt_shutdown>>
         /\ (LoopStep(r) /\ ~paused[r] /\ ~shutdown_requested[r] /\ inbox[r] # <<>>)
            => /\ pc'[r] = "working"
               /\ got'[r] \in Held(inbox[r])
               /\ status'[r] = "working"]_vars

\* The initial Task failed once, was taken again and completed, and the PM
\* then took nothing more from an empty inbox
C12_Witness ==
    /\ Len(tasks) = 2
    /\ tasks[1].priority = LOW
    /\ tasks[1].status = "completed"
    /\ tasks[2].status = "completed"
    /\ \A r \in Roles : pc[r] = "loop" /\ ~paused[r] /\ ~shutdown_requested[r]

\* C13: handling pause leaves every executor paused with status paused and
\* changes nothing else, so a pause handled when that is already so changes
\* nothing; handling resume clears every pause flag, whatever the number of
\* pauses before, and the next iteration of a resumed executor with a Task in
\* its inbox takes one
C13_PauseIdempotent ==
    [][/\ Handles("pause")
          => /\ \A r \in Roles : paused'[r] /\ status'[r] = "paused"
             /\ UNCHANGED <<tasks, qvars, busvars, pc, got, shutdown_requested,
                            rt_shutdown, signvars>>
             /\ (\A r \in Roles : paused[r] /\ status[r] = "paused")
                => UNCHANGED <<paused, status>>
       /\ Handles("resume")
          => /\ \A r \in Roles : ~paused'[r]
             /\ UNCHANGED <<tasks, qvars, busvars, agvars, got,
                            shutdown_requested, rt_shutdown, signvars>>
       /\ \A r \in Roles :
            (LoopStep(r) /\ ~paused[r] /\ ~shutdown_requested[r]
               /\ status[r] = "paused" /\ inbox[r] # <<>>)
            => pc'[r] = "working" /\ got'[r] \in Held(inbox[r])]_vars

\* Every executor is paused with status paused, a Task waits in the PM's
\* inbox, and a second pause is the next command to handle
C13_Witness ==
    /\ command_queue = <<Command("pause", NoRole)>>
    /\ \A r \in Roles : paused[r] /\ status[r] = "paused" /\ pc[r] = "loop"
    /\ inbox["pm"] # <<>>
    /\ ~rt_shutdown

\* C14: no step taken while an executor is paused at the top of its loop
\* takes anything from its mailbox or hands it a Task; an iteration that
\* finds the pause sets status paused, and the status stays paused while the
\* pause lasts and no shutdown is requested
C14_PausedConsumesNothing ==
    [][\A r \in Roles :
         /\ (paused[r] /\ pc[r] = "loop")
            => Keeps(r) /\ pc'[r] \in {"loop", "done"}
         /\ (LoopStep(r) /\ paused[r] /\ ~shutdown_requested[r])
            => status'[r] = "paused" /\ pc'[r] = "loop"
         /\ (paused[r] /\ pc[r] = "loop" /\ status[r] = "paused"
               /\ paused'[r] /\ ~shutdown_requested[r])
            => status'[r] = "paused"]_vars

\* The PM failed on the initial Task while paused, and its next iteration
\* found the pause: the Task waits in its inbox, requeued
C14_Witness ==
    /\ paused["pm"]
    /\ pc["pm"] = "loop"
    /\ status["pm"] = "paused"
    /\ ~shutdown_requested["pm"]
    /\ tasks[1].priority = LOW
    /\ 1 \in Held(inbox["pm"])
    /\ command_queue = <<>>

\* C15: handling shutdown interrupts nothing (an executor at work stays at
\* work on its Task); once shutdown is requested an executor outside
\* process_task takes nothing more from its mailbox, its next iteration ends
\* its loop for good, and no command is handled any more; every executor's
\* loop does end
C15_ShutdownTerminal ==
    /\ [][/\ Handles("shutdown")
             => /\ \A r \in Roles : shutdown_requested'[r]
                /\ rt_shutdown'
                /\ UNCHANGED <<tasks, qvars, busvars, agvars, got, paused, signvars>>
          /\ rt_shutdown
             => UNCHANGED <<paused, shutdown_requested, rt_shutdown>>
          /\ \A r \in Roles :
               /\ (shutdown_requested[r] /\ pc[r] \in {"loop", "done"})
                  => Keeps(r) /\ pc'[r] \in {"loop", "done"}
               /\ (shutdown_requested[r] /\ LoopStep(r)) => pc'[r] = "done"
               /\ pc[r] = "done" => pc'[r] = "done"]_vars
    /\ (\E r \in Roles : shutdown_requested[r])
          ~> (\A r \in Roles : pc[r] = "done")

\* Shutdown found the PM at work on the initial Task: the Task was completed
\* and handed on, every loop has ended, the Architect's inbox still holds
\* the Task handed on, and a resume sent later waits unhandled
C15_Witness ==
    /\ rt_shutdown
    /\ \A r \in Roles : pc[r] = "done" /\ status[r] = "idle"
    /\ Len(tasks) = 2
    /\ tasks[1].status = "completed"
    /\ tasks[2].status = "pending"
    /\ 2 \in Held(inbox["architect"])
    /\ command_queue = <<Command("resume", NoRole)>>

\* The record st is signed off only without blockers
SignedOnlyClear(st) == st.signed_off => st.signoff_blockers = <<>>

\* The record after is the record before with signed_off false and one
\* blocker more at the end
OneBlockerMore(before, after) ==
    /\ ~after.signed_off
    /\ Len(after.signoff_blockers) = Len(before.signoff_blockers) + 1
    /\ SubSeq(after.signoff_blockers, 1, Len(before.signoff_blockers))
         = before.signoff_blockers

\* C16: every record, the project's and the executor's, is signed off only
\* with no blocker; a revoke_signoff, called directly, by result handling or
\* for every role by reject_milestone, leaves signed_off false and the
\* blockers one longer
C16_SignedOffOnlyClear ==
    /\ [](\A r \in Roles :
             SignedOnlyClear(project_agents[r]) /\ SignedOnlyClear(state[r]))
    /\ [][/\ \A r \in Roles :
               (op'.name \in {"revoke_signoff", "revoke"} /\ op'.role = r)
               => /\ OneBlockerMore(project_agents[r], project_agents'[r])
                  /\ \A q \in Roles \ {r} : project_agents'[q] = project_agents[q]
          /\ (op'.name = "reject_milestone" /\ current_milestone)
             => \A r \in Roles :
                   /\ OneBlockerMore(project_agents[r], project_agents'[r])
                   /\ project_agents'[r].signoff_blockers[Len(project_agents'[r].signoff_blockers)]
                        = "rejected"]_vars

\* A milestone was rejected: every record is revoked, the PM's on top of a
\* blocker of its own, the Tester's from a clean record
C16_Witness ==
    /\ op.name = "reject_milestone"
    /\ current_milestone
    /\ \A r \in Roles : ~project_agents[r].signed_off
    /\ project_agents["pm"].signoff_blockers = <<"bugs", "rejected">>
    /\ project_agents["tester"].signoff_blockers = <<"rejected">>
    /\ project_agents["developer"].signoff_blockers = <<"rejected">>

\* C17: sign_off is refused exactly when the record has blockers, and then
\* changes no record (signed_off stays false); with no blocker it succeeds
\* and sets signed_off, changing nothing else
C17_SignOffRefused ==
    [][\A r \in Roles :
         /\ (op'.name = "sign_off raised" /\ op'.role = r)
            => /\ project_agents[r].signoff_blockers # <<>>
               /\ ~project_agents'[r].signed_off
               /\ UNCHANGED <<project_agents, state>>
         /\ (op'.name = "sign_off" /\ op'.role = r)
            => /\ project_agents[r].signoff_blockers = <<>>
               /\ project_agents' =
                    [project_agents EXCEPT ![r] =
                        [signed_off |-> TRUE, signoff_blockers |-> <<>>]]]_vars

\* The Tester's sign_off was refused with two blockers on its record, while
\* the PM's record is signed off
C17_Witness ==
    /\ op.name = "sign_off raised"
    /\ op.role = "tester"
    /\ project_agents["tester"] =
          [signed_off |-> FALSE, signoff_blockers |-> <<"bugs", "rejected">>]
    /\ project_agents["pm"].signed_off

\* This step is a poll of the convergence checker that reports `name`
PollStep(name) ==
    /\ pc_conv = "poll"
    /\ op' # op
    /\ op'.name = name

\* C18: the project becomes delivered only by a poll that finds every record
\* of Project.agents signed off, the checker is past that poll only by such
\* a poll, and the shutdown command of the checker is issued only from there
C18_DetectedOnlyWhenAllSigned ==
    /\ [][/\ (project_state' = "delivered" /\ project_state # "delivered")
             => /\ PollStep("converged")
                /\ \A r \in Roles : project_agents[r].signed_off
          /\ (pc_conv' = "saving" /\ pc_conv # "saving")
             => /\ PollStep("converged")
                /\ \A r \in Roles : project_agents[r].signed_off
          /\ (op' # op /\ op'.name = "shutdown issued")
             => /\ pc_conv = "saving"
                /\ command_queue' =
                     Append(command_queue, Command("shutdown", NoRole))]_vars

\* The checker has issued its shutdown command for a delivered project; the
\* Tester's record was revoked after the poll
C18_Witness ==
    /\ op.name = "shutdown issued"
    /\ project_state = "delivered"
    /\ command_queue = <<Command("shutdown", NoRole)>>
    /\ project_agents["tester"].signoff_blockers = <<"bugs">>
    /\ \A r \in Roles \ {"tester"} : project_agents[r].signed_off

\* C20 as stated: a poll that finds a record not signed off leaves the
\* project not delivered
C20_ClearedOnRepoll ==
    [][PollStep("not converged") => project_state' # "delivered"]_vars

\* C20, amended: a poll reports "not converged" exactly when some record is
\* not signed off, also after a detection, and it changes no state of the
\* project: a delivered project is still delivered after the poll
C20_RepollNotConverged ==
    [][/\ PollStep("not converged")
          => /\ \E r \in Roles : ~project_agents[r].signed_off
             /\ UNCHANGED <<project_state, command_queue, pc_conv>>
       /\ PollStep("converged") => \A r \in Roles : project_agents[r].signed_off]_vars

\* After a detection the PM's record was revoked and the checker polled
\* again: not converged, the project delivered, the shutdown command queued
C20_Witness ==
    /\ op.name = "not converged"
    /\ project_state = "delivered"
    /\ ~project_agents["pm"].signed_off
    /\ command_queue = <<Command("shutdown", NoRole)>>
    /\ ~rt_shutdown

\* C19: once every executor has applied a sign-off to the record it holds
\* (SpecDeliver has no revoke), the checker eventually marks the project
\* delivered, and after a delivery every executor loop stops
C19_EventuallyDelivered ==
    /\ (\A r \in Roles : state[r].signed_off) ~> (project_state = "delivered")
    /\ (project_state = "delivered") ~> (\A r \in Roles : pc[r] = "done")

\* C28: start() leaves exactly one Task, a request from "human" to the PM:
\* it is the only entry of the PM's inbox and of the activity log, every
\* other mailbox is empty, and no executor has taken a step
C28_SeededOnce ==
    [][(op.name = "init" /\ op'.name = "start")
       => /\ tasks' = <<InitialTask(tasks'[1].created_at)>>
          /\ tasks'[1].sender = "human"
          /\ tasks'[1].recipient = "pm"
          /\ tasks'[1].task_type = "request"
          /\ Len(inbox'["pm"]) = 1
          /\ Held(inbox'["pm"]) = {1}
          /\ \A r \in Roles \ {"pm"} : inbox'[r] = <<>>
          /\ \A r \in Roles :
               /\ outbox'[r] = {}
               /\ backlog'[r] = <<>>
               /\ wip'[r] = NoTask
               /\ got'[r] = NoTask
               /\ pc'[r] = "loop"
          /\ activity_log' = <<1>>]_vars

\* start() has returned control to the event loop and no executor has run:
\* the initial Task waits, pending, in the PM's inbox
C28_Witness ==
    /\ op.name = "start"
    /\ \A r \in Roles : pc[r] = "loop" /\ got[r] = NoTask
    /\ Len(tasks) = 1
    /\ tasks[1].status = "pending"
    /\ Held(inbox["pm"]) = {1}
    /\ activity_log = <<1>>

\* C30: what the executor of a role writes on its AgentState is visible in
\* the record Project.agents holds for the role: a sign-off applied by the
\* executor shows there
C30_SameRecord ==
    [][\A r \in Roles :
         (state'[r].signed_off /\ ~state[r].signed_off)
         => project_agents'[r].signed_off]_vars

\* The smaller of two numbers
Min(a, b) == IF a <= b THEN a ELSE b

\* C29: get_recent_activity(limit) returns the last min(limit, n) entries of
\* the activity log, in the order of the log, and leaves the log as it is
C29_LastEntries ==
    [][op'.name = "get_recent_activity"
       => LET n == Len(activity_log)
              k == Min(recent'.limit, n)
          IN  /\ recent'.tasks = SubSeq(activity_log, n - k + 1, n)
              /\ activity_log' = activity_log]_vars

\* This step puts a command into the command queue
SendStep == Len(command_queue') > Len(command_queue)

\* This step takes a command from the command queue
HandleStep == Len(command_queue') < Len(command_queue)

\* The command cmd is applied to the executor of r in this step
AppliedTo(cmd, r) ==
    /\ cmd.command = "pause" => paused'[r] /\ status'[r] = "paused"
    /\ cmd.command = "resume" => ~paused'[r]
    /\ cmd.command = "inject" => guidance'[r] = guidance[r] + 1
    /\ cmd.command = "shutdown" => shutdown_requested'[r]

\* The control flags and the memory of the executor of r are unchanged
Untouched(r) ==
    /\ paused'[r] = paused[r]
    /\ shutdown_requested'[r] = shutdown_requested[r]
    /\ guidance'[r] = guidance[r]

\* C21: send_command appends the command to the queue and changes nothing
\* else; control flags, memory and the runtime's flag change only in a step
\* of the command processor, which takes one command, the oldest, and
\* applies that command
C21_QueuedThenApplied ==
    [][/\ SendStep
          => /\ \E c \in HostCommands, target \in CommandTargets :
                   command_queue' = Append(command_queue, Command(c, target))
             /\ UNCHANGED <<tasks, clock, qvars, busvars, agvars, got, paused,
                            shutdown_requested, rt_shutdown, guidance,
                            signvars, clarvars>>
       /\ HandleStep
          => /\ command_queue' = Tail(command_queue)
             /\ \A r \in Addressed(Head(command_queue)) :
                   AppliedTo(Head(command_queue), r)
             /\ rt_shutdown' = (Head(command_queue).command = "shutdown")
             /\ Head(command_queue).command \notin {"pause", "resume"}
                => paused' = paused
             /\ Head(command_queue).command # "inject" => guidance' = guidance
             /\ Head(command_queue).command # "shutdown"
                => shutdown_requested' = shutdown_requested
       /\ (\E r \in Roles : ~Untouched(r)) \/ rt_shutdown' # rt_shutdown
          => HandleStep]_vars

\* Of two commands that waited, the pause was applied, to every executor,
\* and the resume for the PM still waits
C21_Witness ==
    /\ command_queue = <<Command("resume", "pm")>>
    /\ \A r \in Roles : paused[r] /\ status[r] = "paused"
    /\ ~rt_shutdown
    /\ \A r \in Roles : guidance[r] = 0

\* C22: a command with a target is applied to the executor of that role and
\* leaves the flags and the memory of every other executor as they were; a
\* command with no target is applied to every executor
C22_TargetOnly ==
    [][HandleStep
       => LET cmd == Head(command_queue)
          IN  IF cmd.target_agent # NoRole
              THEN /\ AppliedTo(cmd, cmd.target_agent)
                   /\ \A r \in Roles \ {cmd.target_agent} : Untouched(r)
              ELSE \A r \in Roles : AppliedTo(cmd, r)]_vars

\* The shutdown command of stop() waits in the command queue
StopRequested ==
    \E i \in 1..Len(command_queue) : command_queue[i].command = "shutdown"

\* Every duty gathered by start() has ended: the executor loops, the command
\* processor, the status monitor, the clarification handler and the
\* convergence checker
StartReturns ==
    /\ \A r \in Roles : pc[r] = "done"
    /\ rt_shutdown
    /\ pc_mon = "done"
    /\ pc_clar \in {"done", "raised"}
    /\ pc_conv = "done"

\* C23: once stop() has queued its shutdown command, every executor loop and
\* every orchestrator duty eventually ends, so that start() returns, also
\* while a clarification waits for the human's answer.
C23_StopTerminates == StopRequested ~> StartReturns

\* The response to the question of role r is in r's mailbox
Answered(r) ==
    /\ r \in Roles
    /\ \E i \in 1..Len(tasks) :
           /\ tasks[i].task_type = "clarification_response"
           /\ tasks[i].recipient = r
           /\ i \in InInbox(r)

\* C24: when the human's answer to a pending clarification arrives, the
\* orchestrator eventually routes a clarification response into the
\* mailbox of the role that asked and clears the pending clarification.
C24_AnswerRouted ==
    (pc_clar = "answered") ~> (pending_clarification = NoRole /\ Answered(asked))

\* C25: at most one invocation of the human-answer callback is unresolved
\* at any time.
C25_OneCallInFlight == in_flight <= 1

\* A call is in flight for one role's question while another role has
\* registered its own
C25_Witness ==
    /\ in_flight = 1
    /\ pc_clar = "asking"
    /\ pending_clarification # asked

\* C26: the step that applies the human's answer puts the project back in
\* the state it had just before the clarification was requested.
C26_StateRestored ==
    [][pc_clar = "answered" /\ pc_clar' # "answered"
           => project_state' = before_request]_vars

\* C27: once the project is delivered, no step changes its state.
C27_DeliveredTerminal ==
    [][project_state = "delivered" => project_state' = "delivered"]_vars

\* C39: an executor that is not processing a Task (its status is idle or
\* paused, or its loop has ended) has current_task_id None.
C39_NoCurrentTaskWhenIdle ==
    \A r \in Roles :
        (status[r] \in {"idle", "paused"} \/ pc[r] = "done")
            => current_task_id[r] = NoTask

\* C31: a Task whose status is completed keeps that status in every later
\* step.
C31_CompletedImmutable ==
    [][\A id \in 1..Len(tasks) :
           tasks[id].status = "completed" => tasks'[id].status = "completed"]_vars

\* The step is a get_next of the executor r that returns a Task
TakeStep(r) == pc[r] = "loop" /\ pc'[r] = "working"

\* C33: the Task a get_next takes from an inbox has the least
\* (priority, created_at) of the Tasks that inbox holds at that moment.
C33_LeastOfInbox ==
    [][\A r \in Roles :
           (TakeStep(r) /\ inbox[r] # <<>>)
               => \A id \in Held(inbox[r]) : ~SortKeyLess(id, got'[r])]_vars

\* The ids the mailbox of QRole holds, in inbox or backlog
InMailbox == InInbox(QRole) \cup InBacklog(QRole)

\* C34: get_next takes out of the mailbox the Task it returns and no other:
\* every Task put into the mailbox stays there until a get_next returns it.
C34_NothingLost ==
    [][op'.name = "get_next" => InMailbox' = InMailbox \ {op'.task}]_vars

\* C35: a get_next that finds the inbox not empty leaves the backlog as it
\* is, and the backlog changes only by an append of requeue_with_delay, by
\* clear, or by the drain of a get_next that finds the inbox empty.
C35_FreshNeverDeferred ==
    [][/\ (op'.name = "get_next" /\ inbox[QRole] # <<>>)
          => (backlog' = backlog /\ op'.task = HeapPopItem(inbox[QRole]).task)
       /\ backlog'[QRole] # backlog[QRole]
          => \/ /\ op'.name = "call"
                /\ \E id \in Loose : backlog'[QRole] = Append(backlog[QRole], id)
             \/ /\ op'.name = "call"
                /\ backlog'[QRole] = <<>> /\ inbox'[QRole] = <<>>
             \/ /\ op'.name = "get_next"
                /\ inbox[QRole] = <<>> /\ backlog'[QRole] = <<>>]_vars

\* get_next has returned a fresh request from the inbox of a mailbox that
\* awaits a response to a Task of its own
C35_Witness ==
    /\ op.name = "get_next"
    /\ op.task # NoTask
    /\ served[QRole] # <<>>
    /\ tasks[op.task].parent_task_id = NoTask
    /\ outbox[QRole] # {}
    /\ backlog[QRole] = <<>>

\* The step ends the call of method name by the caller c
Leaves(c, name) == inside[c].holds /\ inside[c].name = name /\ inside'[c] = NoCall

\* C36: at most one caller is inside a block guarded by the mailbox's lock,
\* and it is the holder of the lock; an enqueue adds its Task to the inbox
\* and keeps the entries that were there, and a get_next takes out of the
\* inbox no Task but the one it returns.
C36_OneInside ==
    /\ [](/\ Cardinality({c \in Callers : inside[c].holds}) <= 1
          /\ \A c \in Callers : inside[c].holds => lock = c)
    /\ [][/\ Leaves("router", "enqueue")
             => /\ Held(inbox'[QRole]) = Held(inbox[QRole]) \cup {inside["router"].task}
                /\ Len(inbox'[QRole]) = Len(inbox[QRole]) + 1
          /\ Leaves("owner", "get_next")
             => Held(inbox[QRole]) \ Held(inbox'[QRole]) \subseteq {op'.task}]_vars

\* The router is inside enqueue while the owner, which has called get_next on
\* a mailbox that holds a Task, waits for the lock
C36_Witness ==
    /\ inside["router"].holds
    /\ inside["owner"] = [name |-> "get_next", task |-> NoTask, holds |-> FALSE]
    /\ inbox[QRole] # <<>>

\* The step is the executor r coming back from process_task with a result
HandlesResult(r) ==
    pc[r] = "working" /\ pc'[r] = "loop" /\ result'[r] # "raised"

\* C37: a Task whose result has had its response or outgoing Tasks routed
\* is not put back into the inbox.
C37_RoutedOnce ==
    [][\A r \in Roles :
           (HandlesResult(r) /\ Len(tasks') > Len(tasks))
               => got[r] \notin Held(inbox'[r])]_vars

\* C38: a result with sign_off of an executor whose sign-off was revoked
\* sets signed_off and completes the Task that carried it.
C38_SignOffRegained ==
    [][\A r \in Roles :
           (/\ HandlesResult(r)
            /\ result'[r] = "sign_off"
            /\ state[r].signoff_blockers # <<>>)
               => /\ state'[r].signed_off
                  /\ tasks'[got[r]].status = "completed"]_vars

\* C32: save_project raising ends neither the duty that called it nor
\* start().
C32_SaveNotFatal ==
    /\ pc_mon # "raised"
    /\ pc_conv # "raised"
    /\ ~StartRaises

\* C40: a clarification request registered with the project stays the
\* pending one until it has been put to the human, and while the human is
\* being asked the pending request stays the one they were asked, so that
\* the answer goes to the role that asked it.
C40_RequestKept ==
    [][/\ \A r \in Roles :
              (pending_clarification = r /\ asked # r)
                  => pending_clarification' = r
       /\ pc_clar \in {"asking", "answered"}
              => pending_clarification' = asked]_vars

====
